---- MODULE Spec2Model ----
(***************************************************************************)
(* Model of the scene-to-game generator of game_builder:                   *)
(*   src/lib/scene.js      toScene (Scene Builder), dataUriBytes,          *)
(*                         validateAssets (Asset Validator)                *)
(*   src/lib/canvas.js     clamp                                           *)
(*   src/lib/generator.js  ensureScene, stableStringify, buildGameJs,      *)
(*                         generateBuildManifest                           *)
(*   src/lib/characterExtraction.js  extractCharacterFromFrames,           *)
(*                         calculateColliderBounds, validateCharacterData  *)
(*   src/components/SpriteStudio.jsx and the Edit and Play tabs:           *)
(*                         the authoring character list and generation     *)
(*                                                                         *)
(* JavaScript values are modelled as tagged records of one shape, so that  *)
(* undefined, null, NaN, numbers, strings, booleans, objects (ordered      *)
(* key/value lists: insertion order is part of the value) and arrays can   *)
(* be mixed freely, as they are in the source.                             *)
(***************************************************************************)
EXTENDS Integers, Sequences, FiniteSets, TLC

VARIABLES
  pc,         \* position of the driver: which call has been made
  sceneArgs,  \* the argument object handed to toScene
  scene,      \* what toScene returned (or the TypeError it raised)
  rescene,    \* what toScene returned when re-applied to its own output
  design,     \* the design handed to generateBuildManifest
  built,      \* the local `scene` of generateBuildManifest (ensureScene's result)
  manifest,   \* the manifest generateBuildManifest returned
  design2,    \* a second design, equal as a value to `design`
  manifest2,  \* the manifest of the second call
  call,       \* a call of a library function: its name and its arguments
  result,     \* what that call returned (or the error it raised)
  charactersState, \* SpriteStudio: the `characters` state React holds
  charactersProp,  \* SpriteStudio: the `characters` the handlers of the last render see
  playScene,       \* PlayTab: the Scene the last generation built with toScene
  moduleDefaults,  \* scene.js: the module-level DEFAULTS object as it is in memory
  callerArg,       \* the caller's argument object of toScene as it is in memory
  callerArg0,      \* the same argument as the caller built it
  held,            \* a Scene a caller holds, returned by toScene(callerArg)
  heldRefs,        \* which object each mutable part of `held` is
  later,           \* the Scene of a later toScene call
  gameScene,       \* generator.js: the Scene handed to buildGameJs
  SCENE,           \* game.js: the constant SCENE, its literal evaluated
  player,          \* game.js: the player sprite (undefined before create)
  targetsGroup,    \* game.js: the target sprites alive in the level
  levelScene,      \* game.js: whether window.__levelScene is set
  keys,            \* game.js: the keyboard as the last update read it
  lastOp,          \* game.js: the callback that ran last
  collected,       \* game.js: how many overlap callbacks have run
  framesState,     \* CanvasEditor: the `frames` state, a list of canvases
  currentState,    \* CanvasEditor: the `current` state, every queued update applied
  currentShown,    \* CanvasEditor: `current` as the handlers of the last render see it
  playingState,    \* CanvasEditor: the `playing` state
  canvasPixels,    \* CanvasEditor: the pixels of every canvas created
  historyRef,      \* CanvasEditor: historyRef.current, frame index -> {stack, idx}
  draggingRef,     \* CanvasEditor: draggingRef.current
  phase,           \* which operations the user has performed so far
  beforeStroke,    \* the pixels of the frame when the last stroke began
  beforeUndo       \* the pixels of the current frame when undo was last invoked

pipeVars == <<pc, sceneArgs, scene, rescene, design, built, manifest, design2, manifest2>>
libVars == <<call, result>>
studioVars == <<charactersState, charactersProp, playScene>>
aliasVars == <<moduleDefaults, callerArg, callerArg0, held, heldRefs, later>>
gameVars == <<gameScene, SCENE, player, targetsGroup, levelScene, keys, lastOp, collected>>
editorVars ==
  <<framesState, currentState, currentShown, playingState, canvasPixels, historyRef,
    draggingRef, phase, beforeStroke, beforeUndo>>
vars == <<pipeVars, libVars, studioVars, aliasVars, gameVars, editorVars>>

----------------------------------------------------------------------------
(* JavaScript values *)

JV(tag, num, str, kids) == [t |-> tag, n |-> num, s |-> str, kids |-> kids]

Undefined == JV("undefined", 0, "", <<>>)
Null      == JV("null", 0, "", <<>>)
NaN       == JV("NaN", 0, "", <<>>)
TypeError == JV("TypeError", 0, "", <<>>)
Num(i)    == JV("number", i, "", <<>>)
Str(x)    == JV("string", 0, x, <<>>)
Bool(b)   == JV("boolean", IF b THEN 1 ELSE 0, "", <<>>)
P(key, val) == [k |-> key, v |-> val]
Obj(pairs)  == JV("object", 0, "", pairs)
Arr(items)  == JV("array", 0, "", [i \in 1..Len(items) |-> P("", items[i])])

Elems(a)  == [i \in 1..Len(a.kids) |-> a.kids[i].v]
Keys(o)   == [i \in 1..Len(o.kids) |-> o.kids[i].k]
Has(o, key) == o.t = "object" /\ \E i \in 1..Len(o.kids) : o.kids[i].k = key
\* o.key: undefined when the property is absent or o is a primitive
Get(o, key) ==
  IF Has(o, key)
  THEN o.kids[CHOOSE i \in 1..Len(o.kids) : o.kids[i].k = key].v
  ELSE Undefined

Nullish(v)  == v.t \in {"undefined", "null"}
\* o?.key
OptGet(o, key) == IF Nullish(o) THEN Undefined ELSE Get(o, key)
Truthy(v) ==
  CASE v.t \in {"object", "array"} -> TRUE
    [] v.t = "number"  -> v.n # 0
    [] v.t = "boolean" -> v.n = 1
    [] v.t = "string"  -> v.s # ""
    [] OTHER -> FALSE
\* a || b
Or(a, b) == IF Truthy(a) THEN a ELSE b
\* a ?? b
Coalesce(a, b) == IF Nullish(a) THEN b ELSE a
TypeOf(v) ==
  CASE v.t \in {"number", "NaN"} -> "number"
    [] v.t \in {"object", "array", "null"} -> "object"
    [] OTHER -> v.t

\* ToNumber, as the arithmetic operators and Math.min/max apply it
ToNumber(v) ==
  CASE v.t = "number"  -> v
    [] v.t = "boolean" -> Num(v.n)
    [] v.t = "null"    -> Num(0)
    [] OTHER -> NaN
IsNum(v) == v.t = "number"
MathMin(a, b) ==
  LET x == ToNumber(a)  y == ToNumber(b)
  IN IF IsNum(x) /\ IsNum(y) THEN Num(IF x.n <= y.n THEN x.n ELSE y.n) ELSE NaN
MathMax(a, b) ==
  LET x == ToNumber(a)  y == ToNumber(b)
  IN IF IsNum(x) /\ IsNum(y) THEN Num(IF x.n >= y.n THEN x.n ELSE y.n) ELSE NaN
MathAbs(a) ==
  LET x == ToNumber(a)
  IN IF IsNum(x) THEN Num(IF x.n < 0 THEN -x.n ELSE x.n) ELSE NaN
Sub(a, b) ==
  LET x == ToNumber(a)  y == ToNumber(b)
  IN IF IsNum(x) /\ IsNum(y) THEN Num(x.n - y.n) ELSE NaN

----------------------------------------------------------------------------
(* src/lib/canvas.js *)

\* clamp with the two Math calls exchanged: Math.min(min, Math.max(max, n))
MutClampSwapped(n, min, max) == MathMin(min, MathMax(max, n))
\* clamp that forgets the upper bound: Math.max(min, n)
MutClampNoMax(n, min, max) == MathMax(min, n)

clamp(n, min, max) == MathMax(min, MathMin(max, n))

----------------------------------------------------------------------------
(* src/lib/scene.js *)

DEFAULTS ==
  Obj(<< P("world", Obj(<< P("width", Num(1280)), P("height", Num(720)),
                           P("gravity", Num(1400)) >>)),
         P("controls", Obj(<< P("arrows", Bool(TRUE)), P("spaceJump", Bool(TRUE)),
                              P("resetKey", Str("R")), P("shootKey", Str("X")) >>)) >>)

maxCharacters == 3
gravityMin == 100
gravityMax == 3000
moveSpeedMin == 50
moveSpeedMax == 800
jumpVelocityMin == 100
jumpVelocityMax == 1500
projectileSpeedMin == 100
projectileSpeedMax == 2000
cooldownMsMin == 80
cooldownMsMax == 2000
colliderMin == 8
colliderMax == 256

\* no truncation: the list itself
MutSliceAll(a, n) == a
\* an off-by-one start: characters.slice(1, n)
MutSliceFromSecond(a, n) ==
  Arr(SubSeq(Elems(a), 2, IF Len(a.kids) < n THEN Len(a.kids) ELSE n))

\* characters.slice(0, n)
Slice(a, n) == Arr(SubSeq(Elems(a), 1, IF Len(a.kids) < n THEN Len(a.kids) ELSE n))

\* the optional boolean flag spreads of the abilities literal
AbilityFlag(c, flag) ==
  LET v == OptGet(Get(c, "abilities"), flag)
  IN IF TypeOf(v) = "boolean" THEN << P(flag, Bool(Truthy(v))) >> ELSE << >>

\* the (c, i) => ({...}) callback of toScene; i is 0-based as in the source
SceneCharacter(c, i, W, H) ==
  LET col   == Get(c, "collider")
      ab    == Get(c, "abilities")
      shoot == OptGet(ab, "shoot")
      spawn == Get(c, "spawn")
  IN Obj(<<
       P("id", Or(Get(c, "id"), Str("char-" \o ToString(i + 1)))),
       P("name", Or(Get(c, "name"), Str("Hero"))),
       P("imageUrl", Get(c, "imageUrl")),
       P("collider",
         IF Truthy(col)
         THEN Obj(<< P("w", clamp(Get(col, "w"), Num(colliderMin), Num(colliderMax))),
                     P("h", clamp(Get(col, "h"), Num(colliderMin), Num(colliderMax))),
                     P("offsetX", Or(Get(col, "offsetX"), Num(0))),
                     P("offsetY", Or(Get(col, "offsetY"), Num(0))) >>)
         ELSE Undefined),
       P("abilities", Obj(
           AbilityFlag(c, "jump") \o AbilityFlag(c, "slide") \o AbilityFlag(c, "punch")
           \o << P("moveSpeed", clamp(Coalesce(OptGet(ab, "moveSpeed"), Num(180)),
                                      Num(moveSpeedMin), Num(moveSpeedMax))),
                 P("jumpVelocity", clamp(Coalesce(OptGet(ab, "jumpVelocity"), Num(420)),
                                         Num(jumpVelocityMin), Num(jumpVelocityMax))) >>
           \o (IF Truthy(shoot)
               THEN << P("shoot", Obj(<<
                         P("projectileSpeed", clamp(Get(shoot, "projectileSpeed"),
                              Num(projectileSpeedMin), Num(projectileSpeedMax))),
                         P("cooldownMs", clamp(Get(shoot, "cooldownMs"),
                              Num(cooldownMsMin), Num(cooldownMsMax))) >>)) >>
               ELSE << >>))),
       P("spawn", Obj(<<
           P("x", clamp(Coalesce(OptGet(spawn, "x"), Num(100)), Num(0), W)),
           P("y", clamp(Coalesce(OptGet(spawn, "y"), Sub(H, Num(200))), Num(0), H)) >>))
     >>)

\* the platform callback: (p) => ({ x, y, w, h })
ScenePlatform(p) ==
  Obj(<< P("x", Get(p, "x")), P("y", Get(p, "y")), P("w", Get(p, "w")), P("h", Get(p, "h")) >>)

\* the property reads of toScene that raise a TypeError: a property of null or
\* undefined (world.width; c.id, p.x of a list entry) and .slice / .map of a
\* truthy value that is no array
toSceneThrows(arg) ==
  LET characters == Get(arg, "characters")
      platforms  == Get(arg, "platforms")
      world      == Get(arg, "world")
  IN \/ world = Null
     \/ Truthy(characters) /\ characters.t # "array"
     \/ /\ characters.t = "array"
        /\ \E i \in 1..Len(Slice(characters, maxCharacters).kids) :
              Nullish(characters.kids[i].v)
     \/ Truthy(platforms) /\ platforms.t # "array"
     \/ /\ platforms.t = "array"
        /\ \E i \in 1..Len(platforms.kids) : Nullish(platforms.kids[i].v)

\* targets: background?.targets || []
SceneTargets(arg) == Or(OptGet(Get(arg, "background"), "targets"), Arr(<< >>))

\* toScene(arg), reading the module-level defaults as they are in memory
toSceneWith(arg, defaults) ==
  IF toSceneThrows(arg) THEN TypeError
  ELSE
  LET characters == Get(arg, "characters")
      platforms  == Get(arg, "platforms")
      background == Get(arg, "background")
      controls   == Get(arg, "controls")
      world == IF Get(arg, "world") = Undefined THEN Obj(<< >>) ELSE Get(arg, "world")
      W == Coalesce(Get(world, "width"), Get(Get(defaults, "world"), "width"))
      H == Coalesce(Get(world, "height"), Get(Get(defaults, "world"), "height"))
      kept  == Elems(Slice(Or(characters, Arr(<< >>)), maxCharacters))
      chars == Arr([i \in 1..Len(kept) |-> SceneCharacter(kept[i], i - 1, W, H)])
      plats == Elems(Or(platforms, Arr(<< >>)))
  IN Obj(<<
       P("world", Obj(<<
           P("width", W),
           P("height", H),
           P("gravity", clamp(Coalesce(Get(world, "gravity"),
                                       Get(Get(defaults, "world"), "gravity")),
                              Num(gravityMin), Num(gravityMax))) >>)),
       P("background", Obj(<<
           P("imageUrl", OptGet(background, "imageUrl")),
           P("fit", Or(OptGet(background, "fit"), Str("cover"))) >>)),
       P("platforms", Arr([i \in 1..Len(plats) |-> ScenePlatform(plats[i])])),
       P("targets", SceneTargets(arg)),
       P("characters", chars),
       P("controls", Or(controls, Get(defaults, "controls")))
     >>)

toScene(arg) == toSceneWith(arg, DEFAULTS)

----------------------------------------------------------------------------
(* src/lib/generator.js *)

\* Every property name of the model in the order Array.prototype.sort() gives
\* strings (UTF-16 code units): the sort of Object.keys(obj).sort()
KeyOrder ==
  << "abilities", "arrows", "background", "canvas", "characters", "collider",
     "content", "controls", "cooldownMs", "entities", "entry", "files", "fit",
     "gravity", "h", "height", "id", "imageUrl", "jump", "jumpVelocity", "kind",
     "label", "moveSpeed", "name", "offsetX", "offsetY", "path", "patrol",
     "platforms", "projectileSpeed", "props", "punch", "resetKey", "runtime",
     "shape", "shoot", "shootKey", "slide", "spaceJump", "spawn", "start",
     "targets", "type", "w", "width", "world", "x", "x2", "y", "y2" >>

\* Object.keys(obj).sort()
SortedKeys(obj) == SelectSeq(KeyOrder, LAMBDA key : Has(obj, key))

\* JSON text as its sequence of tokens (the indentation of the third argument
\* of JSON.stringify is a function of the token sequence and is left out)
Tok(x)    == JV("punct", 0, x, << >>)
KeyTok(x) == JV("key", 0, x, << >>)

RECURSIVE JoinTokens(_)
JoinTokens(parts) ==
  IF Len(parts) = 0 THEN << >>
  ELSE IF Len(parts) = 1 THEN parts[1]
  ELSE parts[1] \o << Tok(",") >> \o JoinTokens(Tail(parts))

\* JSON.stringify(value, replacer, 2): `listed` says whether replacer is an
\* array, and then plist is that array. An array replacer is the list of the
\* property names that are serialized, for the objects of EVERY nesting level,
\* in the order of the list; without it an object's own keys are serialized in
\* insertion order. A property whose value is undefined is left out; undefined
\* in an array and NaN are serialized as null.
RECURSIVE JSONStringify(_, _, _)
JSONStringify(value, plist, listed) ==
  CASE value.t = "number"  -> << value >>
    [] value.t = "string"  -> << value >>
    [] value.t = "boolean" -> << Tok(IF value.n = 1 THEN "true" ELSE "false") >>
    [] value.t = "array"   ->
         << Tok("[") >>
         \o JoinTokens([i \in 1..Len(value.kids) |->
                          JSONStringify(value.kids[i].v, plist, listed)])
         \o << Tok("]") >>
    [] value.t = "object"  ->
         LET names == SelectSeq(IF listed THEN plist ELSE Keys(value),
                                LAMBDA key : Has(value, key) /\ Get(value, key) # Undefined)
         IN << Tok("{") >>
            \o JoinTokens([i \in 1..Len(names) |->
                 << KeyTok(names[i]), Tok(":") >>
                 \o JSONStringify(Get(value, names[i]), plist, listed)])
            \o << Tok("}") >>
    [] OTHER -> << Tok("null") >>

\* no key list: JSON.stringify(obj, null, 2), keys in insertion order
MutStringifyUnsorted(obj) == JSONStringify(obj, << >>, FALSE)

stableStringify(obj) == JSONStringify(obj, SortedKeys(obj), TRUE)

\* JSON.parse of a token sequence (what a JavaScript engine does with the
\* object literal `const SCENE = {...};` of game.js)
RECURSIVE ParseValue(_, _)
RECURSIVE ParseMembers(_, _, _)
RECURSIVE ParseElements(_, _, _)
ParseValue(toks, i) ==
  LET tok == toks[i]
  IN CASE tok.t \in {"number", "string"} -> [v |-> tok, i |-> i + 1]
       [] tok = Tok("null")  -> [v |-> Null, i |-> i + 1]
       [] tok = Tok("true")  -> [v |-> Bool(TRUE), i |-> i + 1]
       [] tok = Tok("false") -> [v |-> Bool(FALSE), i |-> i + 1]
       [] tok = Tok("{") ->
            IF toks[i + 1] = Tok("}") THEN [v |-> Obj(<< >>), i |-> i + 2]
            ELSE ParseMembers(toks, i + 1, << >>)
       [] tok = Tok("[") ->
            IF toks[i + 1] = Tok("]") THEN [v |-> Arr(<< >>), i |-> i + 2]
            ELSE ParseElements(toks, i + 1, << >>)
ParseMembers(toks, i, acc) ==
  LET r    == ParseValue(toks, i + 2)
      acc2 == Append(acc, P(toks[i].s, r.v))
  IN IF toks[r.i] = Tok(",") THEN ParseMembers(toks, r.i + 1, acc2)
     ELSE [v |-> Obj(acc2), i |-> r.i + 1]
ParseElements(toks, i, acc) ==
  LET r    == ParseValue(toks, i)
      acc2 == Append(acc, r.v)
  IN IF toks[r.i] = Tok(",") THEN ParseElements(toks, r.i + 1, acc2)
     ELSE [v |-> Arr(acc2), i |-> r.i + 1]
JSONParse(toks) == ParseValue(toks, 1).v

\* Object.assign(target, source)
ObjectAssign(target, source) ==
  IF source.t # "object" THEN target
  ELSE Obj([i \in 1..Len(target.kids) |->
              IF Has(source, target.kids[i].k)
              THEN P(target.kids[i].k, Get(source, target.kids[i].k))
              ELSE target.kids[i]]
           \o SelectSeq(source.kids, LAMBDA p : ~Has(target, p.k)))

DefaultCollider ==
  Obj(<< P("w", Num(48)), P("h", Num(64)), P("offsetX", Num(0)), P("offsetY", Num(0)) >>)

\* what the forEach callback of ensureScene pushes to scene.platforms for e
EntityPlatforms(e) ==
  IF Get(e, "type") # Str("platform") THEN << >>
  ELSE IF /\ Get(e, "shape") = Str("rect")
          /\ TypeOf(Get(e, "w")) = "number" /\ TypeOf(Get(e, "h")) = "number"
  THEN << Obj(<< P("x", Get(e, "x")), P("y", Get(e, "y")),
                 P("w", Get(e, "w")), P("h", Get(e, "h")) >>) >>
  ELSE IF /\ Get(e, "shape") = Str("line")
          /\ TypeOf(Get(e, "x2")) = "number" /\ TypeOf(Get(e, "y2")) = "number"
  THEN LET w == Or(MathAbs(Sub(Get(e, "x2"), Get(e, "x"))), Num(24))
           h == MathMax(Num(4), Or(MathAbs(Sub(Get(e, "y2"), Get(e, "y"))), Num(4)))
       IN << Obj(<< P("x", MathMin(Get(e, "x"), Get(e, "x2"))),
                    P("y", MathMin(Get(e, "y"), Get(e, "y2"))),
                    P("w", w), P("h", h) >>) >>
  ELSE << >>

\* ... to scene.targets
EntityTargets(e) ==
  IF Get(e, "type") \in {Str("coin"), Str("goal"), Str("hazard")}
  THEN << Obj(<< P("x", Get(e, "x")), P("y", Get(e, "y")),
                 P("w", Or(Get(e, "w"), Num(28))), P("h", Or(Get(e, "h"), Num(28))),
                 P("type", Get(e, "type")) >>) >>
  ELSE IF Get(e, "type") = Str("enemy")
  THEN << Obj(<< P("x", Get(e, "x")), P("y", Get(e, "y")),
                 P("w", Or(Get(e, "w"), Num(32))), P("h", Or(Get(e, "h"), Num(32))),
                 P("type", Str("enemy")),
                 P("props", Or(Get(e, "props"), Obj(<< >>))) >>) >>
  ELSE << >>

\* ... to scene.characters
EntityCharacters(e) ==
  IF Get(e, "type") = Str("playerSpawn")
  THEN LET props == Get(e, "props")
       IN << Obj(<<
              P("id", Or(Get(e, "id"), Str("char-1"))),
              P("name", Or(Get(e, "label"), Str("Hero"))),
              P("imageUrl", Or(IF Truthy(props) THEN Get(props, "imageUrl") ELSE props,
                               Str(""))),
              P("collider", Or(IF Truthy(props) THEN Get(props, "collider") ELSE props,
                               DefaultCollider)),
              P("abilities",
                ObjectAssign(Obj(<< P("moveSpeed", Num(180)),
                                    P("jumpVelocity", Num(420)) >>),
                             Or(props, Obj(<< >>)))),
              P("spawn", Obj(<< P("x", Or(Get(e, "x"), Num(100))),
                                P("y", Or(Get(e, "y"), Num(100))) >>)) >>) >>
  ELSE << >>

\* the pushes of the forEach callback, one after another
RECURSIVE Pushed(_)
Pushed(pushes) ==
  IF Len(pushes) = 0 THEN << >> ELSE Head(pushes) \o Pushed(Tail(pushes))

\* the property reads of ensureScene that raise a TypeError
ensureSceneThrows(d) ==
  \/ Nullish(d)
  \/ Truthy(Get(d, "entities")) /\ Get(d, "entities").t # "array"
  \/ /\ Get(d, "entities").t = "array"
     /\ \E i \in 1..Len(Get(d, "entities").kids) : Nullish(Get(d, "entities").kids[i].v)

\* the ground pushed when no entity became a platform
MutGroundAtBottom(world) ==
  Obj(<< P("x", Num(0)), P("y", Get(world, "height")),
         P("w", Get(world, "width")), P("h", Num(60)) >>)
GroundPlatform(world) ==
  Obj(<< P("x", Num(0)), P("y", Sub(Get(world, "height"), Num(60))),
         P("w", Get(world, "width")), P("h", Num(60)) >>)

\* the character pushed when no playerSpawn became a character
DefaultCharacter(world) ==
  Obj(<< P("id", Str("char-1")),
         P("name", Str("Hero")),
         P("imageUrl", Str("")),
         P("collider", DefaultCollider),
         P("abilities", Obj(<< P("moveSpeed", Num(180)),
                               P("jumpVelocity", Num(420)) >>)),
         P("spawn", Obj(<< P("x", Num(120)),
                           P("y", Sub(Get(world, "height"), Num(120))) >>)) >>)

ensureScene(d) ==
  IF ensureSceneThrows(d) THEN TypeError
  ELSE
  LET canvas == Or(Get(d, "canvas"),
                   Obj(<< P("width", Num(1280)), P("height", Num(720)) >>))
      world  == Obj(<< P("width", Or(Get(canvas, "width"), Num(1280))),
                       P("height", Or(Get(canvas, "height"), Num(720))),
                       P("gravity", Num(1400)) >>)
      entities == Elems(Or(Get(d, "entities"), Arr(<< >>)))
      platforms  == Pushed([i \in 1..Len(entities) |-> EntityPlatforms(entities[i])])
      targets    == Pushed([i \in 1..Len(entities) |-> EntityTargets(entities[i])])
      characters == Pushed([i \in 1..Len(entities) |-> EntityCharacters(entities[i])])
  IN Obj(<<
       P("world", world),
       P("background", Obj(<< P("imageUrl", Str("")), P("fit", Str("cover")) >>)),
       P("platforms", Arr(
           IF Len(platforms) = 0
           THEN << GroundPlatform(world) >>
           ELSE platforms)),
       P("targets", Arr(targets)),
       P("characters", Arr(
           IF Len(characters) = 0
           THEN << DefaultCharacter(world) >>
           ELSE characters)),
       P("controls", Obj(<< P("arrows", Bool(TRUE)), P("spaceJump", Bool(TRUE)),
                            P("resetKey", Str("R")), P("shootKey", Str("X")) >>))
     >>)

\* generated text: a fixed template, plus the tokens spliced into it
Text(template, toks) == JV("text", 0, template, [i \in 1..Len(toks) |-> P("", toks[i])])

buildIndexHtml == Text("index.html", << >>)

\* `const SCENE = ${sceneJson};` followed by the fixed engine glue
buildGameJs(sc) == Text("game.js", stableStringify(sc))

\* the files in the other order: game.js first
MutFilesGameFirst(sc) ==
  Arr(<< Obj(<< P("path", Str("game.js")), P("content", buildGameJs(sc)) >>),
         Obj(<< P("path", Str("index.html")), P("content", buildIndexHtml) >>) >>)

\* const files = [...]
ManifestFiles(sc) ==
  Arr(<< Obj(<< P("path", Str("index.html")), P("content", buildIndexHtml) >>),
         Obj(<< P("path", Str("game.js")), P("content", buildGameJs(sc)) >>) >>)

generateBuildManifest(d) ==
  LET sc == ensureScene(d)
  IN IF sc = TypeError THEN TypeError
     ELSE Obj(<< P("kind", Str("web-service")),
                 P("runtime", Str("static")),
                 P("entry", Str("index.html")),
                 P("start", Str("static")),
                 P("files", ManifestFiles(sc)) >>)

\* the file of manifest m at `path`
FileAt(m, path) ==
  LET fs == Elems(Get(m, "files"))
  IN fs[CHOOSE i \in 1..Len(fs) : Get(fs[i], "path") = Str(path)]

\* the object literal that game.js assigns to SCENE, evaluated
EmbeddedScene(m) == JSONParse(Elems(Get(FileAt(m, "game.js"), "content")))

----------------------------------------------------------------------------
(* Inputs *)

MaxChars    == 4   \* longest character list handed to toScene
MaxEntities == 2   \* longest entity list of a design

\* sequences over S of length 0..n
SeqUpTo(S, n) == UNION {[1..m -> S] : m \in 0..n}

\* values around the two ends of a clamp range, the far ends, and absence
Samples(lo, hi) ==
  {Num(x) : x \in {-10, 0, lo - 1, lo, lo + 1, hi - 1, hi, hi + 1, 50000}}
  \cup {Undefined, Null}

Field(key, val) == IF val = Undefined THEN << >> ELSE << P(key, val) >>

PixelUrl == Str("data:image/png;base64,AAAA")
CdnUrl   == Str("https://cdn.example/hero.png")

\* one character whose abilities are probed
AbilityArgs ==
  { Obj(<< P("characters", Arr(<< Obj(<<
        P("id", Str("hero")), P("imageUrl", PixelUrl),
        P("abilities", Obj(Field("moveSpeed", m) \o Field("jumpVelocity", j)
                           \o << P("jump", Bool(TRUE)), P("slide", Num(1)) >>)) >>) >>)) >>)
    : m \in Samples(moveSpeedMin, moveSpeedMax),
      j \in Samples(jumpVelocityMin, jumpVelocityMax) }

ColliderSamples ==
  {Num(x) : x \in {-10, 0, colliderMin - 1, colliderMin, colliderMax, colliderMax + 1}}
  \cup {Undefined}

\* gravity and the collider probed
GravityArgs ==
  { Obj(<< P("world", Obj(Field("gravity", g))),
           P("characters", Arr(<< Obj(<<
              P("name", Str("Box")), P("imageUrl", CdnUrl),
              P("collider", Obj(Field("w", w) \o Field("h", h)
                                \o << P("offsetX", Num(3)) >>)),
              P("abilities", Obj(<< P("shoot", Obj(<< P("projectileSpeed", Num(5000)),
                                                     P("cooldownMs", Num(10)) >>)) >>))
            >>) >>)) >>)
    : g \in Samples(gravityMin, gravityMax), w \in ColliderSamples, h \in ColliderSamples }

WidthSamples  == {Undefined, Null, Num(-1), Num(0), Num(640)}
HeightSamples == {Undefined, Null, Num(-1), Num(0), Num(480)}
SpawnSamples  == {Undefined, Num(-5), Num(0), Num(300), Num(5000)}

\* world size and spawn probed
SpawnArgs ==
  { Obj(<< P("world", Obj(Field("width", w) \o Field("height", h))),
           P("characters", Arr(<< Obj(<< P("id", Str("hero")), P("spawn", sp) >>) >>)) >>)
    : w \in WidthSamples, h \in HeightSamples,
      sp \in {Undefined} \cup {Obj(Field("x", x) \o Field("y", y))
                               : x \in SpawnSamples, y \in SpawnSamples} }

CharA ==
  Obj(<< P("id", Str("a")), P("name", Str("Ann")), P("imageUrl", PixelUrl),
         P("collider", Obj(<< P("w", Num(300)), P("h", Num(40)),
                              P("offsetX", Num(2)), P("offsetY", Num(0)) >>)),
         P("abilities", Obj(<< P("moveSpeed", Num(50000)), P("jumpVelocity", Num(-10)),
                               P("punch", Bool(FALSE)) >>)),
         P("spawn", Obj(<< P("x", Num(2000)), P("y", Num(50)) >>)) >>)
CharB == Obj(<< P("id", Str("b")), P("imageUrl", CdnUrl), P("abilities", Obj(<< P("shoot", Obj(<< >>)) >>)) >>)
CharPool == {CharA, CharB, Obj(<< >>), Null}

\* the character list probed: its length, its order, entries with nothing in them
ListArgs ==
  { Obj(<< P("characters", Arr(cs)) >>) : cs \in SeqUpTo(CharPool, MaxChars) }

Coin == Obj(<< P("x", Num(40)), P("y", Num(60)), P("w", Num(28)), P("h", Num(28)),
               P("type", Str("coin")) >>)
CustomControls ==
  Obj(<< P("arrows", Bool(FALSE)), P("spaceJump", Bool(TRUE)),
         P("resetKey", Str("T")), P("shootKey", Str("Z")) >>)
Ground == Obj(<< P("x", Num(0)), P("y", Num(660)), P("w", Num(1280)), P("h", Num(60)) >>)
Ledge  == Obj(<< P("h", Num(16)), P("w", Num(90)), P("y", Num(400)), P("x", Num(200)),
                 P("id", Str("ledge")) >>)

\* each argument absent, null or partially filled
PartialArgs ==
  { Obj(Field("characters", cs) \o Field("platforms", ps) \o Field("background", bg)
        \o Field("world", w) \o Field("controls", ct))
    : cs \in {Undefined, Null, Arr(<< >>), Arr(<< CharA >>)},
      ps \in {Undefined, Null, Arr(<< Ground, Ledge >>), Arr(<< Ledge, Null >>)},
      bg \in {Undefined, Null,
              Obj(<< P("imageUrl", CdnUrl), P("fit", Str("stretch")) >>),
              Obj(<< P("targets", Arr(<< Coin >>)), P("imageUrl", PixelUrl) >>)},
      w  \in {Undefined, Null, Obj(<< >>), Obj(<< P("gravity", Num(5000)) >>)},
      ct \in {Undefined, Null, CustomControls} }

\* entries with an id of the generated form next to entries without an id
IdArgs ==
  { Obj(<< P("characters", Arr(cs)) >>)
    : cs \in SeqUpTo({Obj(<< P("id", Str("char-2")) >>), Obj(<< >>)}, 2) }

SceneInputs ==
  AbilityArgs \cup GravityArgs \cup SpawnArgs \cup ListArgs \cup PartialArgs \cup IdArgs

EntityPool ==
  { Obj(<< P("type", Str("platform")), P("shape", Str("rect")), P("x", Num(0)),
           P("y", Num(500)), P("w", Num(200)), P("h", Num(20)) >>),
    Obj(<< P("type", Str("platform")), P("shape", Str("line")), P("x", Num(110)),
           P("y", Num(50)), P("x2", Num(10)), P("y2", Num(50)) >>),
    Obj(<< P("type", Str("platform")), P("shape", Str("rect")), P("x", Num(5)) >>),
    Obj(<< P("type", Str("coin")), P("x", Num(40)), P("y", Num(60)) >>),
    Obj(<< P("type", Str("goal")), P("x", Num(900)), P("y", Num(80)),
           P("w", Num(64)), P("h", Num(96)) >>),
    Obj(<< P("type", Str("playerSpawn")) >>),
    Obj(<< P("type", Str("playerSpawn")), P("id", Str("p1")), P("label", Str("Ann")),
           P("x", Num(0)), P("y", Num(30)),
           P("props", Obj(<< P("jumpVelocity", Num(-10)), P("moveSpeed", Num(50000)),
                             P("imageUrl", CdnUrl), P("jump", Bool(TRUE)) >>)) >>),
    Obj(<< P("type", Str("enemy")), P("x", Num(300)), P("y", Num(600)),
           P("props", Obj(<< P("patrol", Num(40)), P("moveSpeed", Num(9)) >>)) >>),
    Obj(<< P("type", Str("decor")), P("x", Num(1)) >>) }

Designs ==
  { Obj(Field("canvas", cv) \o << P("entities", Arr(es)) >>)
    : cv \in {Undefined, Obj(<< P("width", Num(1280)), P("height", Num(720)) >>),
              Obj(<< P("height", Num(480)), P("width", Num(640)) >>)},
      es \in SeqUpTo(EntityPool, MaxEntities) }
  \cup {Obj(<< >>)}

\* the same value with the keys of every object inserted in the opposite order
RECURSIVE ReverseKeys(_)
ReverseKeys(v) ==
  IF v.t \in {"object", "array"}
  THEN LET n == Len(v.kids)
           order(i) == IF v.t = "object" THEN n + 1 - i ELSE i
       IN [v EXCEPT !.kids = [i \in 1..n |-> P(v.kids[order(i)].k,
                                             ReverseKeys(v.kids[order(i)].v))]]
  ELSE v

\* the same value with the keys of every object in sorted order
RECURSIVE Canonical(_)
Canonical(v) ==
  IF v.t = "object"
  THEN Obj([i \in 1..Len(SortedKeys(v)) |->
              P(SortedKeys(v)[i], Canonical(Get(v, SortedKeys(v)[i])))])
  ELSE IF v.t = "array"
  THEN [v EXCEPT !.kids = [i \in 1..Len(v.kids) |-> P("", Canonical(v.kids[i].v))]]
  ELSE v
\* equal as values: the same properties with the same values, in any order
SameValue(a, b) == Canonical(a) = Canonical(b)

----------------------------------------------------------------------------
(* Strings with a long tail.  A string value is the text v.s followed by   *)
(* v.n characters "A": the way a base64 payload of millions of characters  *)
(* is written down.  Every string written with Str has no tail.            *)

Filled(head, fill) == JV("string", fill, head, <<>>)
\* s.length
Length(v) == Len(v.s) + v.n
CharAt(v, i) == IF i <= Len(v.s) THEN SubSeq(v.s, i, i) ELSE "A"
\* s.startsWith(prefix)
StartsWith(v, prefix) ==
  /\ Length(v) >= Len(prefix)
  /\ \A i \in 1..Len(prefix) : CharAt(v, i) = SubSeq(prefix, i, i)
\* s.split(",")[1].length, or -1 where split(",")[1] is undefined
SecondPieceLength(v) ==
  LET commas == {i \in 1..Len(v.s) : SubSeq(v.s, i, i) = ","}
      first  == CHOOSE i \in commas : \A j \in commas : i <= j
      rest   == commas \ {first}
      second == CHOOSE i \in rest : \A j \in rest : i <= j
  IN IF commas = {} THEN -1
     ELSE IF rest = {} THEN Length(v) - first
     ELSE second - first - 1
\* s.trim(), of a text without a tail
RECURSIVE TrimStart(_)
TrimStart(x) ==
  IF Len(x) > 0 /\ SubSeq(x, 1, 1) = " " THEN TrimStart(SubSeq(x, 2, Len(x))) ELSE x
RECURSIVE TrimEnd(_)
TrimEnd(x) ==
  IF Len(x) > 0 /\ SubSeq(x, Len(x), Len(x)) = " "
  THEN TrimEnd(SubSeq(x, 1, Len(x) - 1)) ELSE x
Trim(x) == TrimEnd(TrimStart(x))
\* a < b and a > b of JavaScript: false as soon as one side is not a number
Lt(a, b) ==
  LET x == ToNumber(a)  y == ToNumber(b) IN IsNum(x) /\ IsNum(y) /\ x.n < y.n
Gt(a, b) == Lt(b, a)

----------------------------------------------------------------------------
(* src/lib/scene.js: the Asset Validator *)

MiB == 1024 * 1024
\* CONSTRAINTS.bgMaxMB * 1024 * 1024 and CONSTRAINTS.spriteMaxMB * 1024 * 1024
bgMaxBytes == (15 * MiB) \div 10
spriteMaxBytes == (10 * MiB) \div 10

\* dataUriBytes that counts the characters of the payload as bytes
MutDataUriBytesChars(dataUri) ==
  IF ~Truthy(dataUri) \/ TypeOf(dataUri) # "string" THEN 0
  ELSE LET len == SecondPieceLength(dataUri)
       IN IF len <= 0 THEN 0 ELSE len
dataUriBytes(dataUri) ==
  IF ~Truthy(dataUri) \/ TypeOf(dataUri) # "string" THEN 0
  ELSE LET len == SecondPieceLength(dataUri)
       IN ((IF len <= 0 THEN 0 ELSE len) * 3) \div 4

\* (n / (1024 * 1024)).toFixed(2): the nearest hundredth, a tie going up
MB(n) ==
  LET h == (n * 100 + MiB \div 2) \div MiB
      cents == h % 100
  IN ToString(h \div 100) \o "."
       \o (IF cents < 10 THEN "0" ELSE "") \o ToString(cents)

\* v?.startsWith(prefix), where v is not nullish: a TypeError unless v is a string
OptStartsWithThrows(v) == ~Nullish(v) /\ v.t # "string"
OptStartsWith(v, prefix) == ~Nullish(v) /\ StartsWith(v, prefix)

\* the reads and calls of validateAssets that raise a TypeError
validateAssetsThrows(arg) ==
  \/ Nullish(arg)
  \/ OptStartsWithThrows(OptGet(Get(arg, "background"), "imageUrl"))
  \/ Truthy(Get(arg, "characters")) /\ Get(arg, "characters").t # "array"
  \/ /\ Get(arg, "characters").t = "array"
     /\ \E i \in 1..Len(Get(arg, "characters").kids) :
          LET c == Get(arg, "characters").kids[i].v
          IN Nullish(c) \/ OptStartsWithThrows(Get(c, "imageUrl"))

validateAssets(arg) ==
  IF validateAssetsThrows(arg) THEN TypeError
  ELSE
  LET background == Get(arg, "background")
      characters == Elems(Or(Get(arg, "characters"), Arr(<< >>)))
      bgUrl == OptGet(background, "imageUrl")
      bgErrs ==
        IF OptStartsWith(bgUrl, "data:") /\ dataUriBytes(bgUrl) > bgMaxBytes
        THEN << Str("Background " \o MB(dataUriBytes(bgUrl))
                    \o " MB exceeds limit 1.5 MB") >>
        ELSE << >>
      charErrs(i) ==
        LET url == Get(characters[i], "imageUrl")
        IN IF OptStartsWith(url, "data:") /\ dataUriBytes(url) > spriteMaxBytes
           THEN << Str("Character #" \o ToString(i) \o " " \o MB(dataUriBytes(url))
                       \o " MB exceeds limit 1 MB") >>
           ELSE << >>
      countErrs ==
        IF Len(characters) > maxCharacters
        THEN << Str("Too many characters: " \o ToString(Len(characters))
                    \o " (max " \o ToString(maxCharacters) \o ")") >>
        ELSE << >>
  IN Arr(bgErrs \o Pushed([i \in 1..Len(characters) |-> charErrs(i)]) \o countErrs)

----------------------------------------------------------------------------
(* src/lib/characterExtraction.js *)

\* a frame: a canvas of width x height with the pixels of alpha > 0 listed
Canvas(width, height, opaque) ==
  Obj(<< P("width", Num(width)), P("height", Num(height)),
         P("opaque", Arr([i \in 1..Len(opaque) |->
                            Obj(<< P("x", Num(opaque[i][1])),
                                   P("y", Num(opaque[i][2])) >>)])) >>)

\* canvas.toDataURL("image/png"): "data:," for a canvas without area, else a PNG
\* whose length the source does not determine (here four characters per pixel)
toDataURL(canvas) ==
  IF Get(canvas, "width").n = 0 \/ Get(canvas, "height").n = 0
  THEN Str("data:,")
  ELSE Filled("data:image/png;base64,", 4 * Get(canvas, "width").n * Get(canvas, "height").n)

Floor2(a) == a \div 2
\* Math.max that returns the smaller argument
MutMostIsLeast(a, b) == IF a <= b THEN a ELSE b
Most(a, b) == IF a >= b THEN a ELSE b

\* the bounding box taken without padding: the two pixels taken off again
MutNoPadding == 2 - 2
padding == 2

calculateColliderBounds(canvas) ==
  LET W == Get(canvas, "width").n
      H == Get(canvas, "height").n
      px == Elems(Get(canvas, "opaque"))
      xs == {Get(px[i], "x").n : i \in 1..Len(px)}
      ys == {Get(px[i], "y").n : i \in 1..Len(px)}
      minX == CHOOSE x \in xs : \A o \in xs : x <= o
      maxX == CHOOSE x \in xs : \A o \in xs : x >= o
      minY == CHOOSE y \in ys : \A o \in ys : y <= o
      maxY == CHOOSE y \in ys : \A o \in ys : y >= o
      width  == Most(16, maxX - minX + 1 + padding * 2)
      height == Most(24, maxY - minY + 1 + padding * 2)
  IN IF Len(px) = 0
     THEN Obj(<< P("w", Num(Most(24, W))), P("h", Num(Most(32, H))),
                 P("offsetX", Num(0)), P("offsetY", Num(0)) >>)
     ELSE Obj(<< P("w", Num(width)), P("h", Num(height)),
                 P("offsetX", Num(Most(0, Floor2(W - width)))),
                 P("offsetY", Num(Most(0, Floor2(H - height)))) >>)

\* the rejection of extractCharacterFromFrames
NoFramesError == JV("Error", 0, "No frames available for character extraction", <<>>)

\* a destructuring default: it applies to undefined only
Default(v, d) == IF v = Undefined THEN d ELSE v

\* extractCharacterFromFrames(frames, currentFrame, options), with Date.now() = now
\* and Math.random().toString(36).substr(2, 5) = rand
extractCharacterFromFrames(frames, currentFrame, options, now, rand) ==
  IF ~Truthy(frames) \/ Len(frames.kids) = 0 THEN NoFramesError
  ELSE IF options = Null THEN TypeError
  ELSE
  LET opts  == Default(options, Obj(<< >>))
      cur   == Default(currentFrame, Num(0))
      at    == IF cur.t = "number" /\ cur.n \in 0..(Len(frames.kids) - 1)
               THEN frames.kids[cur.n + 1].v ELSE Undefined
      frame == Or(at, frames.kids[1].v)
  IN Obj(<<
       P("id", Str("char_" \o ToString(now) \o "_" \o rand)),
       P("name", Default(Get(opts, "name"), Str("Character"))),
       P("imageUrl", toDataURL(frame)),
       P("collider", calculateColliderBounds(frame)),
       P("abilities", Default(Get(opts, "abilities"),
            Obj(<< P("jump", Bool(TRUE)), P("slide", Bool(FALSE)), P("punch", Bool(FALSE)),
                   P("moveSpeed", Num(180)), P("jumpVelocity", Num(420)) >>))),
       P("spawn", Default(Get(opts, "spawn"),
            Obj(<< P("x", Num(100)), P("y", Num(520)) >>))),
       P("extractedAt", Str("T" \o ToString(now))),
       P("frameData", Obj(<<
            P("totalFrames", Num(Len(frames.kids))),
            P("extractedFrame", cur),
            P("dimensions", Obj(<< P("w", Get(frame, "width")),
                                   P("h", Get(frame, "height")) >>)) >>))
     >>)

nameMax == 50
validMoveSpeedMin == 10
validMoveSpeedMax == 1000
validJumpVelocityMin == 50
validJumpVelocityMax == 2000
validColliderMin == 8

\* the reads and calls of validateCharacterData that raise a TypeError
validateCharacterDataThrows(character) ==
  \/ Nullish(character)
  \/ Truthy(Get(character, "name")) /\ Get(character, "name").t # "string"
  \/ Truthy(Get(character, "imageUrl")) /\ Get(character, "imageUrl").t # "string"

\* !character.collider || character.collider.w < 8 || character.collider.h < 8
ColliderTooSmall(collider) ==
  \/ ~Truthy(collider)
  \/ Lt(Get(collider, "w"), Num(validColliderMin))
  \/ Lt(Get(collider, "h"), Num(validColliderMin))

\* typeof v !== "number" || v < min || v > max
OutOfRange(v, min, max) ==
  TypeOf(v) # "number" \/ Lt(v, Num(min)) \/ Gt(v, Num(max))

validateCharacterData(character) ==
  IF validateCharacterDataThrows(character) THEN TypeError
  ELSE
  LET name      == Get(character, "name")
      imageUrl  == Get(character, "imageUrl")
      abilities == Get(character, "abilities")
      When(cond, message) == IF cond THEN << Str(message) >> ELSE << >>
  IN Arr(
       When(~Truthy(name) \/ Len(Trim(name.s)) = 0, "Character name is required")
    \o When(Truthy(name) /\ Length(name) > nameMax,
            "Character name too long (max 50 characters)")
    \o When(~Truthy(imageUrl), "Character image is required")
    \o When(Truthy(imageUrl) /\ ~StartsWith(imageUrl, "data:image/"),
            "Invalid image data format")
    \o When(ColliderTooSmall(Get(character, "collider")),
            "Character collider too small (minimum 8x8)")
    \o When(~Truthy(abilities), "Character abilities are required")
    \o When(Truthy(abilities) /\ OutOfRange(Get(abilities, "moveSpeed"),
                                            validMoveSpeedMin, validMoveSpeedMax),
            "Invalid move speed (must be 10-1000)")
    \o When(Truthy(abilities) /\ OutOfRange(Get(abilities, "jumpVelocity"),
                                            validJumpVelocityMin, validJumpVelocityMax),
            "Invalid jump velocity (must be 50-2000)"))

----------------------------------------------------------------------------
(* The driver: one call sequence per behaviour *)

\* the parts of the state a behaviour of another specification leaves alone
IdlePipe ==
  /\ pc = "idle" /\ sceneArgs = Undefined /\ design = Undefined
  /\ scene = Undefined /\ rescene = Undefined /\ built = Undefined
  /\ manifest = Undefined /\ design2 = Undefined /\ manifest2 = Undefined
IdleLib == call = Undefined /\ result = Undefined
IdleStudio ==
  charactersState = Undefined /\ charactersProp = Undefined /\ playScene = Undefined
IdleAlias ==
  /\ moduleDefaults = Undefined /\ callerArg = Undefined /\ callerArg0 = Undefined
  /\ held = Undefined /\ heldRefs = Undefined /\ later = Undefined
IdleGame ==
  /\ gameScene = Undefined /\ SCENE = Undefined /\ player = Undefined
  /\ targetsGroup = Undefined /\ levelScene = Undefined /\ keys = Undefined
  /\ lastOp = Undefined /\ collected = Undefined
IdleEditor ==
  /\ framesState = Undefined /\ currentState = Undefined /\ currentShown = Undefined
  /\ playingState = Undefined /\ canvasPixels = Undefined /\ historyRef = Undefined
  /\ draggingRef = Undefined /\ phase = Undefined /\ beforeStroke = Undefined
  /\ beforeUndo = Undefined

Init ==
  /\ \/ pc = "args" /\ sceneArgs \in SceneInputs /\ design = Undefined
     \/ pc = "design" /\ design \in Designs /\ sceneArgs = Undefined
  /\ scene = Undefined
  /\ rescene = Undefined
  /\ built = Undefined
  /\ manifest = Undefined
  /\ design2 = Undefined
  /\ manifest2 = Undefined
  /\ IdleLib /\ IdleStudio /\ IdleAlias /\ IdleGame /\ IdleEditor

\* scene = toScene(sceneArgs)
CallToScene ==
  /\ pc = "args"
  /\ scene' = toScene(sceneArgs)
  /\ pc' = "scene"
  /\ UNCHANGED <<sceneArgs, rescene, design, built, manifest, design2, manifest2>>
  /\ UNCHANGED <<libVars, studioVars, aliasVars, gameVars, editorVars>>

\* the fields of a Scene handed to toScene again
SceneFields(s) ==
  Obj(<< P("characters", Get(s, "characters")), P("platforms", Get(s, "platforms")),
         P("background", Get(s, "background")), P("world", Get(s, "world")),
         P("controls", Get(s, "controls")) >>)

\* rescene = toScene({characters: scene.characters, ...})
ReapplyToScene ==
  /\ pc = "scene"
  /\ scene # TypeError
  /\ rescene' = toScene(SceneFields(scene))
  /\ pc' = "rescene"
  /\ UNCHANGED <<sceneArgs, scene, design, built, manifest, design2, manifest2>>
  /\ UNCHANGED <<libVars, studioVars, aliasVars, gameVars, editorVars>>

\* manifest = generateBuildManifest(scene), the Scene of toScene handed on
GenerateFromScene ==
  /\ pc = "scene"
  /\ scene # TypeError
  /\ built' = ensureScene(scene)
  /\ manifest' = generateBuildManifest(scene)
  /\ pc' = "sceneManifest"
  /\ UNCHANGED <<sceneArgs, scene, rescene, design, design2, manifest2>>
  /\ UNCHANGED <<libVars, studioVars, aliasVars, gameVars, editorVars>>

\* manifest = generateBuildManifest(design)
Generate ==
  /\ pc = "design"
  /\ built' = ensureScene(design)
  /\ manifest' = generateBuildManifest(design)
  /\ pc' = "manifest"
  /\ UNCHANGED <<sceneArgs, scene, rescene, design, design2, manifest2>>
  /\ UNCHANGED <<libVars, studioVars, aliasVars, gameVars, editorVars>>

\* a second call, on the same design or on an equal one built in another key order
GenerateAgain ==
  /\ pc = "manifest"
  /\ \E d \in {design, ReverseKeys(design)} :
       /\ design2' = d
       /\ manifest2' = generateBuildManifest(d)
  /\ pc' = "manifest2"
  /\ UNCHANGED <<sceneArgs, scene, rescene, design, built, manifest>>
  /\ UNCHANGED <<libVars, studioVars, aliasVars, gameVars, editorVars>>

Next ==
  \/ CallToScene
  \/ ReapplyToScene
  \/ GenerateFromScene
  \/ Generate
  \/ GenerateAgain

Spec == Init /\ [][Next]_vars

----------------------------------------------------------------------------
(* Calls of the library functions, one per behaviour *)

Base64Png == "data:image/png;base64,"
\* image references: absent, null, empty, remote, inline around the two limits, an
\* inline image of 2 MiB, a data URI without a comma, and a value that is no string
UrlSamples ==
  {Undefined, Null, Str(""), CdnUrl, PixelUrl, Num(42),
   Filled("data:image/png;base64", 3000000)}
  \cup {Filled(Base64Png, len) : len \in {1398102, 1398103, 2097153, 2097154, 2796204}}
SpritePool ==
  {Obj(<< >>), Obj(<< P("id", Str("b")), P("imageUrl", CdnUrl) >>),
   Obj(<< P("imageUrl", Filled(Base64Png, 1398103)) >>),
   Obj(<< P("imageUrl", Filled(Base64Png, 1398102)) >>)}
AssetInputs ==
  { Obj(Field("background", bg) \o Field("characters", cs))
    : bg \in {Undefined, Null, Obj(<< >>)}
             \cup {Obj(<< P("imageUrl", u), P("fit", Str("cover")) >>) : u \in UrlSamples},
      cs \in {Undefined, Null} \cup {Arr(l) : l \in SeqUpTo(SpritePool, MaxChars)} }

Name50 == "abcdefghijklmnopqrstuvwxyzabcdefghijklmnopqrstuvwx"
CharacterInputs ==
  { Obj(Field("name", nm) \o Field("imageUrl", url) \o Field("collider", col)
        \o Field("abilities", ab))
    : nm  \in {Undefined, Str(""), Str("   "), Str("Ann"), Str(" Bob "),
               Str(Name50), Str(Name50 \o "y")},
      url \in {Undefined, Str(""), PixelUrl, CdnUrl, Str("data:text/plain,hi")},
      col \in {Undefined, Null, Obj(<< >>),
               Obj(<< P("w", Num(8)), P("h", Num(8)) >>),
               Obj(<< P("w", Num(7)), P("h", Num(64)) >>),
               Obj(<< P("w", Num(48)), P("h", Num(7)) >>)},
      ab  \in {Undefined, Obj(<< >>)}
              \cup {Obj(<< P("moveSpeed", ms), P("jumpVelocity", jv) >>)
                    : ms \in {Num(9), Num(10), Num(1000), Num(1001), Str("180"), NaN},
                      jv \in {Num(49), Num(50), Num(2000), Num(2001)}} }

Sprite64 == Canvas(64, 64, << <<10, 10>> >>)
Blank32  == Canvas(32, 48, << >>)
NoArea   == Canvas(0, 16, << >>)
FrameLists ==
  {Undefined, Null, Arr(<< >>), Arr(<< Sprite64 >>), Arr(<< Blank32, Sprite64 >>),
   Arr(<< NoArea >>)}
ExtractOptions ==
  {Undefined, Obj(<< >>), Obj(<< P("id", Str("hero-7")) >>),
   Obj(<< P("name", Str("")) >>),
   Obj(<< P("id", Str("hero-7")), P("name", Str("Zed")),
          P("abilities", Obj(<< P("moveSpeed", Num(5000)), P("jumpVelocity", Num(420)) >>)),
          P("spawn", Obj(<< P("x", Num(10)), P("y", Num(20)) >>)) >>)}
\* Date.now(), in milliseconds counted from a recent instant
Clock == {0, 1}
Suffixes == {"k3x9a", "00000"}

MaxPixels == 2
\* sprites of a few sizes, transparent or with up to MaxPixels opaque pixels taken
\* among the corners, the centre and (10,10)
SpriteSizes == {<<4, 4>>, <<21, 30>>, <<64, 64>>}
PixelPool(W, H) ==
  {<<0, 0>>, <<W - 1, H - 1>>, <<W - 1, 0>>, <<W \div 2, H \div 2>>}
  \cup (IF W > 10 /\ H > 10 THEN {<<10, 10>>} ELSE {})
Sprites ==
  UNION { {Canvas(sz[1], sz[2], px) : px \in SeqUpTo(PixelPool(sz[1], sz[2]), MaxPixels)}
          : sz \in SpriteSizes }

Call(fn, args) == Obj(<< P("fn", Str(fn)), P("args", Arr(args)) >>)
LibCalls ==
  {Call("calculateColliderBounds", << c >>) : c \in Sprites} \cup
  {Call("validateAssets", << a >>) : a \in AssetInputs}
  \cup {Call("validateCharacterData", << c >>) : c \in CharacterInputs}
  \cup {Call("extractCharacterFromFrames", << f, cur, o >>)
        : f \in FrameLists, cur \in {Undefined, Num(0), Num(1), Num(5)},
          o \in ExtractOptions}
Called(fn) == Get(call, "fn") = Str(fn)
Arg(i) == Elems(Get(call, "args"))[i]
Returned(fn) == Called(fn) /\ result # Undefined

InitLib ==
  /\ call \in LibCalls
  /\ result = Undefined
  /\ IdlePipe /\ IdleStudio /\ IdleAlias /\ IdleGame /\ IdleEditor

\* result = validateAssets(arg)
CallValidateAssets ==
  /\ Called("validateAssets") /\ result = Undefined
  /\ result' = validateAssets(Arg(1))
  /\ UNCHANGED <<call, pipeVars, studioVars, aliasVars, gameVars, editorVars>>

\* result = validateCharacterData(character)
CallValidateCharacterData ==
  /\ Called("validateCharacterData") /\ result = Undefined
  /\ result' = validateCharacterData(Arg(1))
  /\ UNCHANGED <<call, pipeVars, studioVars, aliasVars, gameVars, editorVars>>

\* result = await extractCharacterFromFrames(frames, currentFrame, options)
CallExtractCharacterFromFrames ==
  /\ Called("extractCharacterFromFrames") /\ result = Undefined
  /\ \E now \in Clock, rand \in Suffixes :
       result' = extractCharacterFromFrames(Arg(1), Arg(2), Arg(3), now, rand)
  /\ UNCHANGED <<call, pipeVars, studioVars, aliasVars, gameVars, editorVars>>

\* result = calculateColliderBounds(frame)
CallCalculateColliderBounds ==
  /\ Called("calculateColliderBounds") /\ result = Undefined
  /\ result' = calculateColliderBounds(Arg(1))
  /\ UNCHANGED <<call, pipeVars, studioVars, aliasVars, gameVars, editorVars>>

NextLib ==
  \/ CallCalculateColliderBounds
  \/ CallValidateAssets
  \/ CallValidateCharacterData
  \/ CallExtractCharacterFromFrames

SpecLib == InitLib /\ [][NextLib]_vars

----------------------------------------------------------------------------
(* components/SpriteStudio.jsx with the Edit and Play tabs of the sidebar.  *)
(* React keeps the state; the handlers of a render read the `characters`    *)
(* of that render until the component renders again.                        *)

MaxList == 4

\* useState initial values of SpriteStudio that no modelled handler changes
studioWorld ==
  Obj(<< P("width", Num(1280)), P("height", Num(720)), P("gravity", Num(1400)) >>)
studioPlatforms == Arr(<< >>)
studioBackground == Null

\* what an extraction hands to onCharacterExtract: the current frame extracted
\* with the default options, and with an empty name typed in
Extracted ==
  { extractCharacterFromFrames(Arr(<< Sprite64 >>), Num(0), o, 0, "k3x9a")
    : o \in {Undefined, Obj(<< P("name", Str("")) >>)} }
\* the edits of the character card: a new name
Updates == { Obj(<< P("name", Str("Zed")) >>) }

InitStudio ==
  /\ charactersState = Arr(<< >>)
  /\ charactersProp = Arr(<< >>)
  /\ playScene = Undefined
  /\ IdlePipe /\ IdleLib /\ IdleAlias /\ IdleGame /\ IdleEditor

\* SpriteStudio renders again: its handlers and its children see the new state
Render ==
  /\ playScene = Undefined
  /\ charactersProp # charactersState
  /\ charactersProp' = charactersState
  /\ UNCHANGED <<charactersState, playScene, pipeVars, libVars, aliasVars, gameVars, editorVars>>

\* handleCharacterExtract(characterData), called through the prop of the last render
handleCharacterExtract(characterData) ==
  /\ playScene = Undefined
  /\ Len(charactersState.kids) < MaxList
  /\ IF Len(charactersProp.kids) >= 3
     THEN UNCHANGED charactersState
     ELSE charactersState' = Arr(Elems(charactersState) \o << characterData >>)
  /\ UNCHANGED <<charactersProp, playScene, pipeVars, libVars, aliasVars, gameVars, editorVars>>

ExtractCompletes == \E characterData \in Extracted : handleCharacterExtract(characterData)

\* updateCharacter(index, updates) of the Edit tab
updateCharacter(index, updates) ==
  /\ playScene = Undefined
  /\ LET characters == Elems(charactersProp)
         newCharacters == [characters EXCEPT
                             ![index + 1] = ObjectAssign(characters[index + 1], updates)]
     IN charactersState' = Arr(newCharacters)
  /\ UNCHANGED <<charactersProp, playScene, pipeVars, libVars, aliasVars, gameVars, editorVars>>

EditCharacter ==
  \E index \in 0..(Len(charactersProp.kids) - 1), updates \in Updates :
    updateCharacter(index, updates)

\* deleteCharacter(index) of the Edit tab
deleteCharacter(index) ==
  /\ playScene = Undefined
  /\ LET characters == Elems(charactersProp)
         kept == SelectSeq([i \in 1..Len(characters) |-> i], LAMBDA i : i - 1 # index)
     IN charactersState' = Arr([j \in 1..Len(kept) |-> characters[kept[j]]])
  /\ UNCHANGED <<charactersProp, playScene, pipeVars, libVars, aliasVars, gameVars, editorVars>>

DeleteCharacter ==
  \E index \in 0..(Len(charactersProp.kids) - 1) : deleteCharacter(index)

\* the Generate button of the Play tab is enabled
canGenerate == Len(charactersProp.kids) > 0
assetErrors ==
  validateAssets(Obj(<< P("background", studioBackground),
                        P("characters", charactersProp) >>))

\* handleGenerateGame of the Play tab, one generation per behaviour
handleGenerateGame ==
  /\ playScene = Undefined
  /\ canGenerate
  /\ assetErrors = Arr(<< >>)
  /\ playScene' = toScene(Obj(<< P("characters", charactersProp),
                                P("platforms", studioPlatforms),
                                P("background", studioBackground),
                                P("world", studioWorld) >>))
  /\ UNCHANGED <<charactersState, charactersProp, pipeVars, libVars, aliasVars, gameVars, editorVars>>

NextStudio ==
  \/ Render
  \/ ExtractCompletes
  \/ EditCharacter
  \/ DeleteCharacter
  \/ handleGenerateGame

SpecStudio == InitStudio /\ [][NextStudio]_vars

----------------------------------------------------------------------------
(* Object identity in toScene.  The values above are copies; here the       *)
(* objects a returned Scene shares with the module and with the caller are  *)
(* tracked, so that a write through the Scene reaches what it is shared with *)

MaxTargets == 2

\* which object scene.controls is: the caller's controls or DEFAULTS.controls
ControlsRef(arg) ==
  IF Truthy(Get(arg, "controls")) THEN Str("arg.controls") ELSE Str("DEFAULTS.controls")
\* which object scene.targets is: the caller's background.targets or a new array
TargetsRef(arg) ==
  IF Truthy(OptGet(Get(arg, "background"), "targets"))
  THEN Str("arg.background.targets") ELSE Str("new")

\* o with o[key] = val
Set(o, key, val) == ObjectAssign(o, Obj(<< P(key, val) >>))

AliasInputs == {a \in PartialArgs : ~toSceneThrows(a)}
Gem == Obj(<< P("x", Num(7)), P("y", Num(9)), P("w", Num(28)), P("h", Num(28)),
              P("type", Str("goal")) >>)

InitAlias ==
  /\ moduleDefaults = DEFAULTS
  /\ callerArg \in AliasInputs
  /\ callerArg0 = callerArg
  /\ held = Undefined /\ heldRefs = Undefined /\ later = Undefined
  /\ IdlePipe /\ IdleLib /\ IdleStudio /\ IdleGame /\ IdleEditor

\* const scene = toScene(arg)
HoldScene ==
  /\ held = Undefined
  /\ held' = toSceneWith(callerArg, moduleDefaults)
  /\ heldRefs' = Obj(<< P("controls", ControlsRef(callerArg)),
                        P("targets", TargetsRef(callerArg)) >>)
  /\ UNCHANGED <<moduleDefaults, callerArg, callerArg0, later>>
  /\ UNCHANGED <<pipeVars, libVars, studioVars, gameVars, editorVars>>

\* scene.controls.resetKey = "Q"
WriteControls ==
  /\ held # Undefined /\ later = Undefined
  /\ Get(Get(held, "controls"), "resetKey") # Str("Q")
  /\ LET written(c) == Set(c, "resetKey", Str("Q"))
     IN /\ held' = Set(held, "controls", written(Get(held, "controls")))
        /\ moduleDefaults' =
             IF Get(heldRefs, "controls") = Str("DEFAULTS.controls")
             THEN Set(moduleDefaults, "controls", written(Get(moduleDefaults, "controls")))
             ELSE moduleDefaults
        /\ callerArg' =
             IF Get(heldRefs, "controls") = Str("arg.controls")
             THEN Set(callerArg, "controls", written(Get(callerArg, "controls")))
             ELSE callerArg
  /\ UNCHANGED <<callerArg0, heldRefs, later>>
  /\ UNCHANGED <<pipeVars, libVars, studioVars, gameVars, editorVars>>

\* scene.targets.push(gem)
PushTarget ==
  /\ held # Undefined /\ later = Undefined
  /\ Len(Get(held, "targets").kids) < MaxTargets
  /\ LET pushed(a) == Arr(Elems(a) \o << Gem >>)
     IN /\ held' = Set(held, "targets", pushed(Get(held, "targets")))
        /\ callerArg' =
             IF Get(heldRefs, "targets") = Str("arg.background.targets")
             THEN Set(callerArg, "background",
                      Set(Get(callerArg, "background"), "targets",
                          pushed(Get(Get(callerArg, "background"), "targets"))))
             ELSE callerArg
  /\ UNCHANGED <<moduleDefaults, callerArg0, heldRefs, later>>
  /\ UNCHANGED <<pipeVars, libVars, studioVars, gameVars, editorVars>>

\* scene.characters[0].name = "Renamed": the character objects of a Scene are new
RenameCharacter ==
  /\ held # Undefined /\ later = Undefined
  /\ Len(Elems(Get(held, "characters"))) >= 1
  /\ Get(Elems(Get(held, "characters"))[1], "name") # Str("Renamed")
  /\ held' = Set(held, "characters",
                 Arr([Elems(Get(held, "characters")) EXCEPT ![1] = Set(@, "name", Str("Renamed"))]))
  /\ UNCHANGED <<moduleDefaults, callerArg, callerArg0, heldRefs, later>>
  /\ UNCHANGED <<pipeVars, libVars, studioVars, gameVars, editorVars>>

\* a later call: toScene({}) or toScene(arg) once more
CallLater ==
  /\ held # Undefined /\ later = Undefined
  /\ \E again \in BOOLEAN :
       later' = Obj(<< P("again", Bool(again)),
                       P("scene", toSceneWith(IF again THEN callerArg ELSE Obj(<< >>),
                                              moduleDefaults)) >>)
  /\ UNCHANGED <<moduleDefaults, callerArg, callerArg0, held, heldRefs>>
  /\ UNCHANGED <<pipeVars, libVars, studioVars, gameVars, editorVars>>

NextAlias ==
  \/ HoldScene
  \/ WriteControls
  \/ PushTarget
  \/ RenameCharacter
  \/ CallLater

SpecAlias == InitAlias /\ [][NextAlias]_vars

----------------------------------------------------------------------------
(* Claims *)

Generated == pc \in {"manifest", "manifest2"}
SceneBuilt == pc \in {"scene", "rescene", "sceneManifest"} /\ scene # TypeError
Chars(s) == Elems(Get(s, "characters"))
\* the character entries of the input that toScene keeps
InputChars == Elems(Or(Get(sceneArgs, "characters"), Arr(<< >>)))
Least(a, b) == IF a <= b THEN a ELSE b

\* C1: the SCENE literal of the generated game.js, parsed back, equals the Scene
\* that ensureScene produced for the design, every nested field included.
C1_EmbeddedSceneIsEnsureScene ==
  Generated => SameValue(EmbeddedScene(manifest), built)

\* C2: a Scene of toScene handed to generateBuildManifest yields a manifest whose
\* embedded SCENE carries that Scene's characters with their (clamped) moveSpeed
\* and jumpVelocity unchanged.
C2_EmbedsClampedAbilities ==
  pc = "sceneManifest" =>
    /\ manifest # TypeError
    /\ LET emb == Chars(EmbeddedScene(manifest))
       IN /\ Len(emb) = Len(Chars(scene))
          /\ \A i \in 1..Len(emb) :
               /\ Get(Get(emb[i], "abilities"), "moveSpeed")
                    = Get(Get(Chars(scene)[i], "abilities"), "moveSpeed")
               /\ Get(Get(emb[i], "abilities"), "jumpVelocity")
                    = Get(Get(Chars(scene)[i], "abilities"), "jumpVelocity")

\* C3: generateBuildManifest is deterministic: a repeated call on the same design,
\* or a call on a design equal as a value but built in another key insertion
\* order, gives the same index.html and game.js contents.
C3_Deterministic ==
  pc = "manifest2" =>
    /\ SameValue(design2, design)
    /\ Get(FileAt(manifest2, "index.html"), "content")
         = Get(FileAt(manifest, "index.html"), "content")
    /\ Get(FileAt(manifest2, "game.js"), "content")
         = Get(FileAt(manifest, "game.js"), "content")

\* a second call was made on a design whose key order differs, and the design
\* has a playerSpawn entity whose props reach the Scene's abilities
C3_Witness ==
  /\ pc = "manifest2"
  /\ design2 # design
  /\ \E i \in 1..Len(Chars(built)) : Has(Get(Chars(built)[i], "abilities"), "imageUrl")

Nearest(x, lo, hi) == IF x < lo THEN lo ELSE IF x > hi THEN hi ELSE x
\* what the claim says of one clamped field: the nearest value of the range for
\* a number, the default for an absent (undefined or null) input
ClampedOrDefault(in, out, lo, hi, default) ==
  /\ IsNum(in) => out = Num(Nearest(in.n, lo, hi))
  /\ Nullish(in) => out = Num(default)
\* ... the collider's w and h have no default
ClampedSize(in, out) ==
  IsNum(in) => out = Num(Nearest(in.n, colliderMin, colliderMax))

\* C5: toScene's moveSpeed, jumpVelocity, gravity and collider w/h are the input
\* when it lies in the range and otherwise the nearest bound; an absent
\* moveSpeed, jumpVelocity or gravity gives 180, 420 or 1400.
C5_Clamping ==
  SceneBuilt =>
    /\ ClampedOrDefault(OptGet(Get(sceneArgs, "world"), "gravity"),
                        Get(Get(scene, "world"), "gravity"), gravityMin, gravityMax, 1400)
    /\ \A i \in 1..Len(Chars(scene)) :
         LET in  == InputChars[i]
             out == Chars(scene)[i]
         IN /\ ClampedOrDefault(OptGet(Get(in, "abilities"), "moveSpeed"),
                                Get(Get(out, "abilities"), "moveSpeed"),
                                moveSpeedMin, moveSpeedMax, 180)
            /\ ClampedOrDefault(OptGet(Get(in, "abilities"), "jumpVelocity"),
                                Get(Get(out, "abilities"), "jumpVelocity"),
                                jumpVelocityMin, jumpVelocityMax, 420)
            /\ Truthy(Get(in, "collider")) =>
                 /\ ClampedSize(Get(Get(in, "collider"), "w"), Get(Get(out, "collider"), "w"))
                 /\ ClampedSize(Get(Get(in, "collider"), "h"), Get(Get(out, "collider"), "h"))

\* a Scene was built from a moveSpeed above the range, a jumpVelocity below it
\* and came out at the bounds
C5_Witness ==
  /\ pc = "scene" /\ scene # TypeError /\ Len(Chars(scene)) = 1
  /\ Get(Get(InputChars[1], "abilities"), "moveSpeed") = Num(50000)
  /\ Get(Get(InputChars[1], "abilities"), "jumpVelocity") = Num(-10)
  /\ Get(Get(Chars(scene)[1], "abilities"), "moveSpeed") = Num(moveSpeedMax)
  /\ Get(Get(Chars(scene)[1], "abilities"), "jumpVelocity") = Num(jumpVelocityMin)

\* C6: for n input characters toScene returns min(n, 3) characters, the i-th
\* made from the i-th input character (its id, name and image), in order.
C6_Truncation ==
  SceneBuilt =>
    /\ Len(Chars(scene)) = Least(Len(InputChars), maxCharacters)
    /\ \A i \in 1..Len(Chars(scene)) :
         /\ Truthy(Get(InputChars[i], "id")) =>
              Get(Chars(scene)[i], "id") = Get(InputChars[i], "id")
         /\ ~Truthy(Get(InputChars[i], "id")) =>
              Get(Chars(scene)[i], "id") = Str("char-" \o ToString(i))
         /\ Get(Chars(scene)[i], "imageUrl") = Get(InputChars[i], "imageUrl")

\* more than three characters went in, three came out, with no error
C6_Witness ==
  /\ pc = "scene" /\ scene # TypeError
  /\ Len(InputChars) > maxCharacters
  /\ Len(Chars(scene)) = maxCharacters
  /\ Get(InputChars[1], "id") # Get(InputChars[2], "id")

\* spawn lies inside the world of the same Scene
SpawnInWorld(s) ==
  \A i \in 1..Len(Chars(s)) :
    LET sp == Get(Chars(s)[i], "spawn")
        W  == Get(Get(s, "world"), "width")
        H  == Get(Get(s, "world"), "height")
    IN /\ IsNum(Get(sp, "x")) /\ IsNum(Get(sp, "y")) /\ IsNum(W) /\ IsNum(H)
       /\ 0 <= Get(sp, "x").n /\ Get(sp, "x").n <= W.n
       /\ 0 <= Get(sp, "y").n /\ Get(sp, "y").n <= H.n

\* C7 as stated: for any supplied or defaulted world width and height and any
\* supplied or absent spawn, 0 <= spawn.x <= world.width and
\* 0 <= spawn.y <= world.height in the Scene toScene returns.
C7_SpawnInWorldAnySize ==
  SceneBuilt => SpawnInWorld(scene)

\* C7 (amended): the same, for a world whose width and height are absent or
\* not negative.
C7_SpawnInWorld ==
  (/\ SceneBuilt
   /\ Get(Get(scene, "world"), "width").n >= 0
   /\ Get(Get(scene, "world"), "height").n >= 0) => SpawnInWorld(scene)

\* a spawn beyond a supplied world size was pulled back to the edge
C7_Witness ==
  /\ pc = "scene" /\ scene # TypeError /\ Len(Chars(scene)) = 1
  /\ Get(Get(sceneArgs, "world"), "width") = Num(640)
  /\ Get(Get(InputChars[1], "spawn"), "x") = Num(5000)
  /\ Get(Get(Chars(scene)[1], "spawn"), "x") = Num(640)

\* C8: toScene never throws: with characters, platforms, background, world and
\* controls each absent, null or partially filled it returns a Scene.
C8_NeverThrows ==
  pc = "scene" => scene # TypeError

\* C9: toScene applied to the characters, platforms, background, world and
\* controls of its own output returns those five unchanged.
C9_Idempotent ==
  pc = "rescene" =>
    /\ rescene # TypeError
    /\ \A key \in {"characters", "world", "platforms", "background", "controls"} :
         Get(rescene, key) = Get(scene, key)

\* the first pass changed something (a clamp, a default, a truncation) and the
\* second pass ran on its output
C9_Witness ==
  /\ pc = "rescene"
  /\ Len(InputChars) > maxCharacters
  /\ Get(Chars(scene)[1], "abilities") # Get(InputChars[1], "abilities")

InRange(v, lo, hi) == IsNum(v) /\ lo <= v.n /\ v.n <= hi
\* no field of the Scene missing, every number within its declared bounds
FullyPopulatedInRange(s) ==
  /\ \A key \in {"world", "background", "platforms", "targets", "characters", "controls"} :
       Has(s, key) /\ Get(s, key) # Undefined
  /\ InRange(Get(Get(s, "world"), "gravity"), gravityMin, gravityMax)
  /\ SpawnInWorld(s)
  /\ \A i \in 1..Len(Chars(s)) :
       LET c  == Chars(s)[i]
           ab == Get(c, "abilities")
       IN /\ \A key \in {"id", "name", "imageUrl", "collider", "abilities", "spawn"} :
               Has(c, key) /\ Get(c, key) # Undefined
          /\ InRange(Get(Get(c, "collider"), "w"), colliderMin, colliderMax)
          /\ InRange(Get(Get(c, "collider"), "h"), colliderMin, colliderMax)
          /\ InRange(Get(ab, "moveSpeed"), moveSpeedMin, moveSpeedMax)
          /\ InRange(Get(ab, "jumpVelocity"), jumpVelocityMin, jumpVelocityMax)
          /\ Has(ab, "shoot") =>
               /\ InRange(Get(Get(ab, "shoot"), "projectileSpeed"),
                          projectileSpeedMin, projectileSpeedMax)
               /\ InRange(Get(Get(ab, "shoot"), "cooldownMs"), cooldownMsMin, cooldownMsMax)

\* C10: every Scene returned by toScene or by ensureScene is fully populated and
\* in range.
C10_SceneInvariant ==
  /\ SceneBuilt => FullyPopulatedInRange(scene)
  /\ Generated => FullyPopulatedInRange(built)

\* the entities of the design handed to generateBuildManifest
DesignEntities == Elems(Or(Get(design, "entities"), Arr(<< >>)))
\* a platform entity ensureScene maps: a rectangle with a numeric size or a line
\* with a numeric end point
IsPlatformEntity(e) ==
  /\ Get(e, "type") = Str("platform")
  /\ \/ Get(e, "shape") = Str("rect") /\ TypeOf(Get(e, "w")) = "number"
                                      /\ TypeOf(Get(e, "h")) = "number"
     \/ Get(e, "shape") = Str("line") /\ TypeOf(Get(e, "x2")) = "number"
                                      /\ TypeOf(Get(e, "y2")) = "number"
IsSpawnEntity(e) == Get(e, "type") = Str("playerSpawn")
PlatformEntities == {i \in 1..Len(DesignEntities) : IsPlatformEntity(DesignEntities[i])}
SpawnEntities == {i \in 1..Len(DesignEntities) : IsSpawnEntity(DesignEntities[i])}
\* the ground and the default character the claim describes, for a world W x H
ExpectedGround(W, H) ==
  Obj(<< P("x", Num(0)), P("y", Num(H - 60)), P("w", Num(W)), P("h", Num(60)) >>)
IsExpectedHero(c, H) ==
  /\ Get(c, "id") = Str("char-1")
  /\ Get(c, "name") = Str("Hero")
  /\ Get(c, "spawn") = Obj(<< P("x", Num(120)), P("y", Num(H - 120)) >>)

\* C11: the Scene ensureScene returns has at least one platform and at least one
\* character; the ground (x 0, y H-60, w W, h 60) is there exactly when no entity
\* was mapped to a platform, and the default character (id "char-1", name "Hero",
\* spawn (120, H-120)) exactly when no playerSpawn entity was mapped.
C11_Fallbacks ==
  Generated =>
    LET W == Get(Get(built, "world"), "width").n
        H == Get(Get(built, "world"), "height").n
        plats == Elems(Get(built, "platforms"))
        chars == Chars(built)
    IN /\ Len(plats) >= 1
       /\ Len(chars) >= 1
       /\ IF PlatformEntities = {}
          THEN plats = << ExpectedGround(W, H) >>
          ELSE Len(plats) = Cardinality(PlatformEntities)
               /\ \A i \in 1..Len(plats) : plats[i] # ExpectedGround(W, H)
       /\ IF SpawnEntities = {}
          THEN Len(chars) = 1 /\ IsExpectedHero(chars[1], H)
          ELSE Len(chars) = Cardinality(SpawnEntities)
               /\ \A i \in 1..Len(chars) : ~IsExpectedHero(chars[i], H)
\* a design whose entities include neither a platform nor a playerSpawn was built
C11_Witness ==
  /\ Generated
  /\ Len(DesignEntities) >= 1
  /\ PlatformEntities = {} /\ SpawnEntities = {}
  /\ Elems(Get(built, "platforms")) = << ExpectedGround(640, 480) >>
  /\ Len(Chars(built)) = 1

\* the truthy ids a list of entries carries, in order
SuppliedIds(entries) ==
  LET RECURSIVE Ids(_)
      Ids(i) == IF i > Len(entries) THEN << >>
                ELSE IF Truthy(OptGet(entries[i], "id"))
                     THEN << OptGet(entries[i], "id") >> \o Ids(i + 1)
                     ELSE Ids(i + 1)
  IN Ids(1)
Distinct(seq) == \A i, j \in 1..Len(seq) : i # j => seq[i] # seq[j]
CharIds(s) == [i \in 1..Len(Chars(s)) |-> Get(Chars(s)[i], "id")]
SpawnList == SuppliedIds([i \in 1..Len(DesignEntities) |->
                            IF IsSpawnEntity(DesignEntities[i]) THEN DesignEntities[i]
                            ELSE Obj(<< >>)])

\* C13: the characters of a Scene returned by toScene or ensureScene have pairwise
\* distinct ids whenever the ids supplied in the input are pairwise distinct, the
\* generated ids of entries without one included.
C13_DistinctIds ==
  /\ SceneBuilt /\ Distinct(SuppliedIds(InputChars)) => Distinct(CharIds(scene))
  /\ Generated /\ Distinct(SpawnList) => Distinct(CharIds(built))

\* the base64 payload of a data URI: what follows its comma
PayloadLength(u) == IF SecondPieceLength(u) < 0 THEN 0 ELSE SecondPieceLength(u)
EstimatedBytes(u) == (PayloadLength(u) * 3) \div 4
IsInline(u) == u.t = "string" /\ StartsWith(u, "data:")
\* the one message of an asset over its limit, none otherwise
SizeViolation(label, u, limit, limitText) ==
  IF IsInline(u) /\ EstimatedBytes(u) > limit
  THEN << Str(label \o " " \o MB(EstimatedBytes(u)) \o " MB exceeds limit "
              \o limitText \o " MB") >>
  ELSE << >>
AssetChars == Elems(Or(Get(Arg(1), "characters"), Arr(<< >>)))
AssetBgUrl == OptGet(Get(Arg(1), "background"), "imageUrl")

\* C15: validateAssets reports a size violation for an asset exactly when its
\* imageUrl is an inline data: URI whose estimated size floor(payload length * 3 / 4)
\* exceeds the limit (1.5 * 1024 * 1024 bytes for the background, 1.0 * 1024 * 1024
\* for each character); one message per offending asset, with the size in MB to two
\* decimals and the limit; never one for a remote URL.
C15_SizeViolations ==
  Returned("validateAssets") /\ result # TypeError =>
    LET msgs == Elems(result)
        size == IF Len(AssetChars) > 3 THEN SubSeq(msgs, 1, Len(msgs) - 1) ELSE msgs
    IN size = SizeViolation("Background", AssetBgUrl, 1572864, "1.5")
              \o Pushed([i \in 1..Len(AssetChars) |->
                   SizeViolation("Character #" \o ToString(i),
                                 Get(AssetChars[i], "imageUrl"), 1048576, "1")])
\* a background of 2 MiB and a sprite just over 1 MiB, next to a remote sprite and a
\* sprite just under the limit, were validated
C15_Witness ==
  /\ Returned("validateAssets")
  /\ AssetBgUrl = Filled(Base64Png, 2796204)
  /\ Len(AssetChars) = 3
  /\ Get(AssetChars[1], "imageUrl") = CdnUrl
  /\ Get(AssetChars[2], "imageUrl") = Filled(Base64Png, 1398103)
  /\ Get(AssetChars[3], "imageUrl") = Filled(Base64Png, 1398102)
  /\ result = Arr(<< Str("Background 2.00 MB exceeds limit 1.5 MB"),
                     Str("Character #2 1.00 MB exceeds limit 1 MB") >>)

\* C16: validateAssets never throws, for any background (absent, null, or carrying
\* any imageUrl value) and any character list (absent, empty, longer than 3, entries
\* without an imageUrl); it always returns a list of violation strings.
C16_NeverThrows ==
  Returned("validateAssets") =>
    /\ result.t = "array"
    /\ \A i \in 1..Len(result.kids) : result.kids[i].v.t = "string"

SuppliedId == OptGet(Arg(3), "id")
\* C19: extractCharacterFromFrames returns a Character whose id is the supplied id
\* when the caller supplies one and a freshly generated id otherwise; with an empty
\* or missing frame list it rejects with an error and returns no Character.
C19_IdAndRejection ==
  Returned("extractCharacterFromFrames") =>
    IF ~Truthy(Arg(1)) \/ Len(Arg(1).kids) = 0
    THEN result.t = "Error"
    ELSE /\ result.t = "object"
         /\ IF SuppliedId # Undefined
            THEN Get(result, "id") = SuppliedId
            ELSE StartsWith(Get(result, "id"), "char_")

\* the rules of the claim, read on the character handed to the validator
IsNumberIn(v, lo, hi) == v.t = "number" /\ lo <= v.n /\ v.n <= hi
NameRule(c) ==
  /\ Get(c, "name").t = "string"
  /\ Trim(Get(c, "name").s) # ""
  /\ Len(Get(c, "name").s) <= 50
ImageRule(c) ==
  Get(c, "imageUrl").t = "string" /\ StartsWith(Get(c, "imageUrl"), "data:image/")
ColliderRule(c) ==
  /\ Get(c, "collider").t = "object"
  /\ IsNumberIn(Get(Get(c, "collider"), "w"), 8, 1000000)
  /\ IsNumberIn(Get(Get(c, "collider"), "h"), 8, 1000000)
AbilitiesRule(c) == Get(c, "abilities").t = "object"
MoveSpeedRule(c) == IsNumberIn(Get(Get(c, "abilities"), "moveSpeed"), 10, 1000)
JumpVelocityRule(c) == IsNumberIn(Get(Get(c, "abilities"), "jumpVelocity"), 50, 2000)
Reports(message) == \E i \in 1..Len(result.kids) : result.kids[i].v = Str(message)

\* C20: validateCharacterData returns an empty list exactly when the name is
\* non-empty after trimming and at most 50 characters long, the imageUrl starts with
\* "data:image/", the collider exists with w >= 8 and h >= 8, the abilities block
\* exists, moveSpeed is a number in [10,1000] and jumpVelocity a number in [50,2000];
\* every violated rule contributes an error message.
C20_ExactlyWhenValid ==
  Returned("validateCharacterData") /\ result # TypeError =>
    LET c == Arg(1) IN
    /\ result = Arr(<< >>) <=>
         /\ NameRule(c) /\ ImageRule(c) /\ ColliderRule(c)
         /\ AbilitiesRule(c) /\ MoveSpeedRule(c) /\ JumpVelocityRule(c)
    /\ ~NameRule(c) => Reports("Character name is required")
                       \/ Reports("Character name too long (max 50 characters)")
    /\ ~ImageRule(c) => Reports("Character image is required")
                        \/ Reports("Invalid image data format")
    /\ ~ColliderRule(c) => Reports("Character collider too small (minimum 8x8)")
    /\ ~AbilitiesRule(c) => Reports("Character abilities are required")
    /\ AbilitiesRule(c) /\ ~MoveSpeedRule(c)
         => Reports("Invalid move speed (must be 10-1000)")
    /\ AbilitiesRule(c) /\ ~JumpVelocityRule(c)
         => Reports("Invalid jump velocity (must be 50-2000)")

\* C12: every Scene the Play tab builds with toScene when a generation starts has at
\* least one character and at least one platform, for every reachable authoring
\* state of the editor.
C12_PlaySceneComplete ==
  playScene # Undefined =>
    /\ playScene.t = "object"
    /\ Len(Chars(playScene)) >= 1
    /\ Len(Elems(Get(playScene, "platforms"))) >= 1

\* C17: a Character is in the authoring list only if validateCharacterData returns
\* an empty error list for it (the edits of the model rename to a valid name, so a
\* listed character the validator rejects was added that way by an extraction).
C17_OnlyValidated ==
  \A i \in 1..Len(charactersState.kids) :
    validateCharacterData(charactersState.kids[i].v) = Arr(<< >>)

\* C18: after any interleaving of extract completions, edits and deletions the
\* authoring list never holds more than 3 characters, several extractions
\* completing before the editor has rendered again included.
C18_AtMostThree == Len(charactersState.kids) <= 3

\* C14: a Scene returned by toScene shares no mutable object with its inputs, with
\* the module-level defaults or with the Scenes of other calls: after any write to
\* its characters, controls or targets the caller's input is as the caller built it
\* and a later toScene call returns what it returns without the write.
C14_NoSharedObjects ==
  held # Undefined =>
    /\ callerArg = callerArg0
    /\ later # Undefined =>
         Get(later, "scene") =
           toScene(IF Get(later, "again") = Bool(TRUE) THEN callerArg0 ELSE Obj(<< >>))

\* the sprite handed to calculateColliderBounds and its opaque pixels
SpriteW == Get(Arg(1), "width").n
SpriteH == Get(Arg(1), "height").n
Opaque ==
  LET px == Elems(Get(Arg(1), "opaque"))
  IN {<<Get(px[i], "x").n, Get(px[i], "y").n>> : i \in 1..Len(px)}
Largest(S) == CHOOSE x \in S : \A y \in S : x >= y
Smallest(S) == CHOOSE x \in S : \A y \in S : x <= y
BboxWidth == Largest({p[1] : p \in Opaque}) - Smallest({p[1] : p \in Opaque}) + 1
BboxHeight == Largest({p[2] : p \in Opaque}) - Smallest({p[2] : p \in Opaque}) + 1
Collider(w, h, offsetX, offsetY) ==
  Obj(<< P("w", Num(w)), P("h", Num(h)),
         P("offsetX", Num(offsetX)), P("offsetY", Num(offsetY)) >>)

\* C21: for a sprite W x H without a pixel of alpha > 0 the collider is
\* {max(24,W), max(32,H), 0, 0}; otherwise w = max(16, bboxWidth + 4),
\* h = max(24, bboxHeight + 4), offsetX = max(0, floor((W - w)/2)) and
\* offsetY = max(0, floor((H - h)/2)).
C21_ColliderBounds ==
  Returned("calculateColliderBounds") =>
    IF Opaque = {}
    THEN result = Collider(Largest({24, SpriteW}), Largest({32, SpriteH}), 0, 0)
    ELSE LET w == Largest({16, BboxWidth + 4})
             h == Largest({24, BboxHeight + 4})
         IN result = Collider(w, h, Largest({0, (SpriteW - w) \div 2}),
                                    Largest({0, (SpriteH - h) \div 2}))
\* a single opaque pixel at (10,10) on a 64 x 64 sprite gave 16, 24, 24, 20
C21_Witness ==
  /\ Returned("calculateColliderBounds")
  /\ SpriteW = 64 /\ SpriteH = 64 /\ Opaque = {<<10, 10>>}
  /\ result = Collider(16, 24, 24, 20)

\* the rectangle of the collider contains the pixel p
InCollider(p) ==
  LET ox == Get(result, "offsetX").n
      oy == Get(result, "offsetY").n
  IN /\ ox <= p[1] /\ p[1] < ox + Get(result, "w").n
     /\ oy <= p[2] /\ p[2] < oy + Get(result, "h").n
\* the bounding box of the opaque pixels has the centre of the sprite
BboxCentred ==
  /\ Smallest({p[1] : p \in Opaque}) + Largest({p[1] : p \in Opaque}) = SpriteW - 1
  /\ Smallest({p[2] : p \in Opaque}) + Largest({p[2] : p \in Opaque}) = SpriteH - 1

C22_SpawnOfEntity ==
  Generated =>
    \A j \in 1..Len(Chars(built)) :
      SpawnEntities # {} =>
        LET RECURSIVE Nth(_, _)
            Nth(i, k) == IF IsSpawnEntity(DesignEntities[i])
                         THEN (IF k = 1 THEN i ELSE Nth(i + 1, k - 1))
                         ELSE Nth(i + 1, k)
            e == DesignEntities[Nth(1, j)]
            expected(v) == IF v = Undefined THEN Num(100) ELSE v
        IN Get(Chars(built)[j], "spawn")
             = Obj(<< P("x", expected(Get(e, "x"))), P("y", expected(Get(e, "y"))) >>)

\* C30: toScene applied to the characters, platforms, background, world
\* and controls of a Scene s it produced returns targets equal to s.targets.
C30_TargetsKept ==
  pc = "rescene" /\ rescene # TypeError =>
    Get(rescene, "targets") = Get(scene, "targets")
----------------------------------------------------------------------------
(* The generated game: game.js as buildGameJs writes it, and the message
   listener of index.html *)

MaxCollected == 2   \* overlap callbacks followed in one behaviour

\* designs whose hero has abilities of its own, in levels with up to two targets
GameAbilities ==
  { Obj(<< P("moveSpeed", Num(m[1])), P("jumpVelocity", Num(m[2])) >>)
    : m \in {<<moveSpeedMin, jumpVelocityMin>>, <<300, 110>>,
             <<moveSpeedMax, jumpVelocityMax>>} }
GameTargets ==
  { Obj(<< P("type", Str("coin")), P("x", Num(40)), P("y", Num(60)) >>),
    Obj(<< P("type", Str("goal")), P("x", Num(900)), P("y", Num(80)),
           P("w", Num(64)), P("h", Num(96)) >>) }
GameDesigns ==
  { Obj(<< P("canvas", Obj(<< P("width", Num(1280)), P("height", Num(720)) >>)),
           P("entities", Arr(<< Obj(<< P("type", Str("playerSpawn")), P("id", Str("p1")),
                                       P("x", Num(200)), P("y", Num(300)),
                                       P("props", ab) >>) >>
                                \o ts)) >>)
    : ab \in GameAbilities, ts \in SeqUpTo(GameTargets, 2) }
  \cup {Obj(<< >>)}

\* what the browser posts to the page: e.data
MessageData ==
  {Null, Obj(<< P("type", Str("reset")) >>), Obj(<< P("type", Str("pause")) >>)}

\* where the physics engine may have moved the player since the last frame
PlayerMoves == {<<Num(54), Num(74)>>}

\* function clamp(n, a, b) of game.js
gameClamp(n, a, b) == MathMax(a, MathMin(b, n))

\* const W = SCENE.world.width, H = SCENE.world.height
WorldW(S) == Get(Get(S, "world"), "width")
WorldH(S) == Get(Get(S, "world"), "height")

\* (SCENE.targets || []).forEach(t => targetsGroup.create(...)): one sprite per
\* target; the sprite's centre is (left + displayWidth / 2, top + displayHeight / 2)
TargetSprite(t) ==
  Obj(<< P("left", Or(Get(t, "x"), Num(0))), P("top", Or(Get(t, "y"), Num(0))),
         P("displayWidth", Or(Get(t, "w"), Num(28))),
         P("displayHeight", Or(Get(t, "h"), Num(28))) >>)
TargetSprites(S) ==
  LET ts == Elems(Or(Get(S, "targets"), Arr(<< >>)))
  IN [i \in 1..Len(ts) |-> TargetSprite(ts[i])]

\* const hero = SCENE.characters[0]
heroOf(S) ==
  LET cs == Get(S, "characters")
  IN IF cs.t = "array" /\ Len(cs.kids) > 0 THEN Elems(cs)[1] ELSE Undefined

\* const spawn = hero.spawn || { x: 100, y: H - 120 }
spawnOf(S) ==
  Or(Get(heroOf(S), "spawn"),
     Obj(<< P("x", Num(100)), P("y", Sub(WorldH(S), Num(120))) >>))

\* player = this.physics.add.sprite(spawn.x, spawn.y, ...)
PlayerSprite(S) ==
  Obj(<< P("x", Get(spawnOf(S), "x")), P("y", Get(spawnOf(S), "y")),
         P("velocityX", Num(0)), P("velocityY", Num(0)) >>)

\* create() stops with a TypeError where it reads a property of undefined or null
createThrows(S) ==
  \/ \E i \in 1..Len(TargetSprites(S)) :
       Nullish(Elems(Or(Get(S, "targets"), Arr(<< >>)))[i])
  \/ Nullish(heroOf(S))

\* update(): const speed = clamp(hero.abilities && hero.abilities.moveSpeed ? ... : 180, 50, 1000)
speed(S) ==
  LET ab == Get(heroOf(S), "abilities")
  IN gameClamp(IF Truthy(ab) /\ Truthy(Get(ab, "moveSpeed"))
               THEN Get(ab, "moveSpeed") ELSE Num(180), Num(50), Num(1000))
\* update(): const jumpV = -clamp(... : 420, 120, 1500)
jumpV(S) ==
  LET ab == Get(heroOf(S), "abilities")
  IN Sub(Num(0), gameClamp(IF Truthy(ab) /\ Truthy(Get(ab, "jumpVelocity"))
                           THEN Get(ab, "jumpVelocity") ELSE Num(420),
                           Num(120), Num(1500)))

NoKeys == [left |-> FALSE, right |-> FALSE, jump |-> FALSE, r |-> FALSE]

\* the page has loaded game.js: SCENE is evaluated, no scene callback has run
InitGame ==
  /\ \E d \in GameDesigns :
       /\ gameScene = ensureScene(d)
       /\ SCENE = EmbeddedScene(generateBuildManifest(d))
  /\ player = Undefined
  /\ targetsGroup = << >>
  /\ levelScene = FALSE
  /\ keys = NoKeys
  /\ lastOp = "load"
  /\ collected = 0
  /\ IdlePipe /\ IdleLib /\ IdleStudio /\ IdleAlias /\ IdleEditor

\* the level as create() leaves it: every target sprite, the player at spawn,
\* window.__levelScene set
Created ==
  /\ targetsGroup' = TargetSprites(SCENE)
  /\ player' = PlayerSprite(SCENE)
  /\ levelScene' = TRUE

\* Phaser calls create() when the scene starts
create ==
  /\ lastOp = "load"
  /\ IF createThrows(SCENE)
     THEN UNCHANGED <<targetsGroup, player, levelScene>>
     ELSE Created
  /\ lastOp' = "create"
  /\ UNCHANGED <<gameScene, SCENE, keys, collected>>
  /\ UNCHANGED <<pipeVars, libVars, studioVars, aliasVars, editorVars>>

\* Phaser calls update() each frame of a running scene; jump is
\* Phaser.Input.Keyboard.JustDown(cursors.space) && grounded
update(left, right, jump, r) ==
  /\ levelScene
  /\ keys' = [left |-> left, right |-> right, jump |-> jump, r |-> r]
  /\ IF r
     THEN \* this.scene.restart(): the scene shuts down and create() runs again
          Created /\ lastOp' = "restartKey"
     ELSE /\ player' = Obj(<<
               P("x", Get(player, "x")), P("y", Get(player, "y")),
               P("velocityX", IF left THEN Sub(Num(0), speed(SCENE))
                              ELSE IF right THEN speed(SCENE) ELSE Num(0)),
               P("velocityY", IF jump THEN jumpV(SCENE)
                              ELSE Get(player, "velocityY")) >>)
          /\ lastOp' = "update"
          /\ UNCHANGED <<targetsGroup, levelScene>>
  /\ UNCHANGED <<gameScene, SCENE, collected>>
  /\ UNCHANGED <<pipeVars, libVars, studioVars, aliasVars, editorVars>>

\* the overlap callback: (_p, target) => { target.destroy(); ... }
overlap ==
  /\ levelScene
  /\ collected < MaxCollected
  /\ \E i \in 1..Len(targetsGroup) :
       targetsGroup' = SubSeq(targetsGroup, 1, i - 1)
                       \o SubSeq(targetsGroup, i + 1, Len(targetsGroup))
  /\ collected' = collected + 1
  /\ lastOp' = "overlap"
  /\ UNCHANGED <<gameScene, SCENE, player, levelScene, keys>>
  /\ UNCHANGED <<pipeVars, libVars, studioVars, aliasVars, editorVars>>

\* the arcade physics of the config moves the player between frames
physicsStep ==
  /\ levelScene
  /\ \E to \in PlayerMoves :
       player' = Obj(<< P("x", to[1]), P("y", to[2]),
                        P("velocityX", Get(player, "velocityX")),
                        P("velocityY", Get(player, "velocityY")) >>)
  /\ lastOp' = "physics"
  /\ UNCHANGED <<gameScene, SCENE, targetsGroup, levelScene, keys, collected>>
  /\ UNCHANGED <<pipeVars, libVars, studioVars, aliasVars, editorVars>>

\* the 'message' listener of index.html
onMessage(data) ==
  /\ lastOp # "load"
  /\ IF Truthy(data) /\ Get(data, "type") = Str("reset") /\ levelScene
     THEN Created /\ lastOp' = "restartMessage"
     ELSE lastOp' = "message" /\ UNCHANGED <<targetsGroup, player, levelScene>>
  /\ UNCHANGED <<gameScene, SCENE, keys, collected>>
  /\ UNCHANGED <<pipeVars, libVars, studioVars, aliasVars, editorVars>>

NextGame ==
  \/ create
  \/ \E left, right, jump, r \in BOOLEAN : update(left, right, jump, r)
  \/ overlap
  \/ physicsStep
  \/ \E data \in MessageData : onMessage(data)

SpecGame == InitGame /\ [][NextGame]_vars

\* the first character of the Scene the game was generated from
SceneHero == Elems(Get(gameScene, "characters"))[1]
SceneMoveSpeed == Get(Get(SceneHero, "abilities"), "moveSpeed")
SceneJumpVelocity == Get(Get(SceneHero, "abilities"), "jumpVelocity")

\* C23: after every frame of the generated game in which left or right is
\* held, the player's horizontal velocity has the magnitude of the first
\* character's moveSpeed of the Scene, and after every frame with a jump it
\* has the upward velocity of that character's jumpVelocity, for every
\* moveSpeed in [50,800] and jumpVelocity in [100,1500].
C23_AbilitiesApplied ==
  lastOp = "update" =>
    /\ IsNumberIn(SceneMoveSpeed, moveSpeedMin, moveSpeedMax) =>
         /\ keys.left => Get(player, "velocityX") = Sub(Num(0), SceneMoveSpeed)
         /\ ~keys.left /\ keys.right => Get(player, "velocityX") = SceneMoveSpeed
    /\ IsNumberIn(SceneJumpVelocity, jumpVelocityMin, jumpVelocityMax) =>
         (keys.jump => Get(player, "velocityY") = Sub(Num(0), SceneJumpVelocity))

Restarted == lastOp \in {"restartKey", "restartMessage"}
SceneSpawn == Get(SceneHero, "spawn")

\* C24: after a reset of the generated game (the R key or a posted "reset"
\* message), however many targets were collected before, there is a target
\* sprite for every target of the Scene, each where the Scene puts it, and
\* the player is at the spawn point of the Scene's first character.
C24_ResetRestoresLevel ==
  Restarted =>
    /\ targetsGroup = TargetSprites(gameScene)
    /\ Get(player, "x") = Get(SceneSpawn, "x")
    /\ Get(player, "y") = Get(SceneSpawn, "y")

----------------------------------------------------------------------------
(* src/components/editors/CanvasEditor.jsx: the frames of the sprite, the
   per-index undo history and the timeline.  A canvas is an object with an
   identity: framesState lists canvas numbers, canvasPixels[c] is what canvas
   c shows.  A snapshot remembers the canvas getImageData read it from. *)

MaxCanvases == 3   \* canvases created in one behaviour, the first frame included
MaxSnaps    == 3   \* snapshots held by all the history stacks together

historyLimit == 50

\* a sprite of one pixel, clear (0) or painted (1)
Blank == <<0>>
PixelIndexes == {1}
\* what an imported file shows once fitted into the sprite
ImportImages == {<<1>>}
NoImage == << >>
NoHistory == [stack |-> << >>, idx |-> -1]

\* drawLinePixel on one pixel with the pencil
Paint(image, px) == [image EXCEPT ![px] = 1]

\* nf.splice(at, 0, item) and nf.splice(at, 1) on a copy of the list, at 0-based
InsertAt(list, at, item) ==
  SubSeq(list, 1, at) \o << item >> \o SubSeq(list, at + 1, Len(list))
RemoveAt(list, at) == SubSeq(list, 1, at) \o SubSeq(list, at + 2, Len(list))

\* const currCanvas = frames[current], as the handlers of the last render see it
currCanvas == framesState[currentShown + 1]
\* the canvas of the first render, which the key listener registered once keeps
firstCanvas == 1

\* pushHistory() with key = current and the canvas of the closure
pushHistory(history, key, canvas, pixels) ==
  LET stackObj == history[key]
      snap     == [image |-> pixels[canvas], from |-> canvas]
      kept     == IF stackObj.idx < Len(stackObj.stack) - 1
                  THEN SubSeq(stackObj.stack, 1, stackObj.idx + 1)
                  ELSE stackObj.stack
      pushed   == Append(kept, snap)
      limited  == IF Len(pushed) > historyLimit THEN Tail(pushed) ELSE pushed
  IN [history EXCEPT ![key] = [stack |-> limited, idx |-> Len(limited) - 1]]

\* undo() and redo(): whether they return early, the index they move to
undoReturns(history, key) == history[key].idx <= 0
redoReturns(history, key) == history[key].idx >= Len(history[key].stack) - 1
undoIdx(history, key) == history[key].idx - 1
redoIdx(history, key) == history[key].idx + 1
\* ctx.putImageData(h.stack[h.idx], 0, 0) after h.idx has become idx
putSnapshot(pixels, history, key, idx, canvas) ==
  [pixels EXCEPT ![canvas] = history[key].stack[idx + 1].image]

\* setCurrent((i) => clamp(i - 1, 0, frames.length - 2)) without the lower clamp
MutAfterDeleteNoFloor(i, length) == IF i - 1 > length - 2 THEN length - 2 ELSE i - 1
\* setCurrent((i) => clamp(i - 1, 0, frames.length - 2))
afterDelete(i, length) ==
  LET hi == length - 2
      lo == IF i - 1 < hi THEN i - 1 ELSE hi
  IN IF lo > 0 THEN lo ELSE 0

\* which kind of sequence the operations so far form
NextPhase(op) ==
  CASE phase = "strokes" /\ op = "stroke" -> "strokes"
    [] phase \in {"strokes", "edits"} /\ op \in {"stroke", "edit"} -> "edits"
    [] phase = "strokes" /\ op = "undo" /\ ~draggingRef /\ beforeStroke # NoImage
         -> "strokes.undo"
    [] phase = "edits" /\ op = "undo" /\ ~draggingRef -> "edits.undo"
    [] phase \in {"strokes.undo", "edits.undo"} /\ op = "redo" -> "undo.redo"
    [] OTHER -> "other"
Track(op, strokeFrom, undoFrom) ==
  /\ phase' = NextPhase(op)
  /\ beforeStroke' = IF NextPhase(op) \in {"strokes", "strokes.undo"}
                     THEN strokeFrom ELSE NoImage
  /\ beforeUndo' = IF NextPhase(op) \in {"strokes.undo", "edits.undo", "undo.redo"}
                   THEN undoFrom ELSE NoImage

\* the editor after its mount effect: one blank frame, its snapshot pushed
InitEditor ==
  /\ framesState = << firstCanvas >>
  /\ currentState = 0
  /\ currentShown = 0
  /\ playingState = FALSE
  /\ canvasPixels = << Blank >>
  /\ historyRef = pushHistory([k \in 0..(MaxCanvases - 1) |-> NoHistory], 0,
                              firstCanvas, << Blank >>)
  /\ draggingRef = FALSE
  /\ phase = "strokes"
  /\ beforeStroke = NoImage
  /\ beforeUndo = NoImage
  /\ IdlePipe /\ IdleLib /\ IdleStudio /\ IdleAlias /\ IdleGame

\* the snapshots all the stacks hold
RECURSIVE Snapshots(_)
Snapshots(k) ==
  IF k < 0 THEN 0 ELSE Len(historyRef[k].stack) + Snapshots(k - 1)
CanPush == Snapshots(MaxCanvases - 1) < MaxSnaps

\* pointer down on the sprite with the pencil (the pointer was up)
beginStroke(px) ==
  /\ ~draggingRef
  /\ CanPush
  /\ historyRef' = pushHistory(historyRef, currentShown, currCanvas, canvasPixels)
  /\ draggingRef' = TRUE
  /\ canvasPixels' = [canvasPixels EXCEPT ![currCanvas] = Paint(@, px)]
  /\ Track("stroke", canvasPixels[currCanvas], NoImage)
  /\ UNCHANGED <<framesState, currentState, currentShown, playingState>>
  /\ UNCHANGED <<pipeVars, libVars, studioVars, aliasVars, gameVars>>

\* pointer move while a stroke is on
moveStroke(px) ==
  /\ draggingRef
  /\ canvasPixels' = [canvasPixels EXCEPT ![currCanvas] = Paint(@, px)]
  /\ Track("stroke", beforeStroke, NoImage)
  /\ UNCHANGED <<framesState, currentState, currentShown, playingState, historyRef,
                 draggingRef>>
  /\ UNCHANGED <<pipeVars, libVars, studioVars, aliasVars, gameVars>>

\* pointer up
endStroke ==
  /\ draggingRef
  /\ draggingRef' = FALSE
  /\ Track("stroke", beforeStroke, NoImage)
  /\ UNCHANGED <<framesState, currentState, currentShown, playingState, historyRef,
                 canvasPixels>>
  /\ UNCHANGED <<pipeVars, libVars, studioVars, aliasVars, gameVars>>

\* ctx.clearRect(...); pushHistory() of the New Sprite button and of deleteFrame
ClearAndPush ==
  LET cleared == [canvasPixels EXCEPT ![currCanvas] = Blank]
  IN /\ canvasPixels' = cleared
     /\ historyRef' = pushHistory(historyRef, currentShown, currCanvas, cleared)

\* the New Sprite button
newSprite ==
  /\ CanPush
  /\ ClearAndPush
  /\ Track("edit", NoImage, NoImage)
  /\ UNCHANGED <<framesState, currentState, currentShown, playingState, draggingRef>>
  /\ UNCHANGED <<pipeVars, libVars, studioVars, aliasVars, gameVars>>

\* handleImport: img.onload draws the file over the cleared frame, then pushHistory()
handleImport(image) ==
  /\ CanPush
  /\ LET drawn == [canvasPixels EXCEPT ![currCanvas] = image]
     IN /\ canvasPixels' = drawn
        /\ historyRef' = pushHistory(historyRef, currentShown, currCanvas, drawn)
  /\ Track("edit", NoImage, NoImage)
  /\ UNCHANGED <<framesState, currentState, currentShown, playingState, draggingRef>>
  /\ UNCHANGED <<pipeVars, libVars, studioVars, aliasVars, gameVars>>

\* undo() with the key and the canvas of its closure
UndoOn(key, canvas) ==
  /\ IF undoReturns(historyRef, key)
     THEN /\ UNCHANGED <<historyRef, canvasPixels>>
          /\ Track("undo", beforeStroke, canvasPixels[framesState[currentState + 1]])
     ELSE /\ historyRef' = [historyRef EXCEPT ![key].idx = undoIdx(historyRef, key)]
          /\ canvasPixels' = putSnapshot(canvasPixels, historyRef, key,
                                         undoIdx(historyRef, key), canvas)
          /\ Track("undo", beforeStroke, canvasPixels[framesState[currentState + 1]])
  /\ UNCHANGED <<framesState, currentState, currentShown, playingState, draggingRef>>
  /\ UNCHANGED <<pipeVars, libVars, studioVars, aliasVars, gameVars>>

\* redo() with the key and the canvas of its closure
RedoOn(key, canvas) ==
  /\ IF redoReturns(historyRef, key)
     THEN /\ UNCHANGED <<historyRef, canvasPixels>>
          /\ Track("redo", NoImage, beforeUndo)
     ELSE /\ historyRef' = [historyRef EXCEPT ![key].idx = redoIdx(historyRef, key)]
          /\ canvasPixels' = putSnapshot(canvasPixels, historyRef, key,
                                         redoIdx(historyRef, key), canvas)
          /\ Track("redo", NoImage, beforeUndo)
  /\ UNCHANGED <<framesState, currentState, currentShown, playingState, draggingRef>>
  /\ UNCHANGED <<pipeVars, libVars, studioVars, aliasVars, gameVars>>

\* the Undo and Redo buttons: the functions of the last render
undo == UndoOn(currentShown, currCanvas)
redo == RedoOn(currentShown, currCanvas)

\* Ctrl/Cmd+Z, +Shift+Z and +Y: onKey was registered by an effect without
\* dependencies, so it calls the undo and redo of the first render, whose
\* current is 0 and whose currCanvas is the first canvas
onKeyUndo == UndoOn(0, firstCanvas)
onKeyRedo == RedoOn(0, firstCanvas)

\* a timeline handler has set state: React renders before the next event
Timeline(frames, current) ==
  /\ framesState' = frames
  /\ currentState' = current
  /\ currentShown' = current
  /\ Track("other", NoImage, NoImage)
  /\ UNCHANGED <<playingState, historyRef, draggingRef>>
  /\ UNCHANGED <<pipeVars, libVars, studioVars, aliasVars, gameVars>>

addFrame ==
  /\ Len(canvasPixels) < MaxCanvases
  /\ canvasPixels' = Append(canvasPixels, Blank)
  /\ Timeline(InsertAt(framesState, currentShown + 1, Len(canvasPixels) + 1),
              currentState + 1)

duplicateFrame ==
  /\ Len(canvasPixels) < MaxCanvases
  /\ canvasPixels' = Append(canvasPixels, canvasPixels[currCanvas])
  /\ Timeline(InsertAt(framesState, currentShown + 1, Len(canvasPixels) + 1),
              currentState + 1)

deleteFrame ==
  IF Len(framesState) = 1
  THEN /\ CanPush
       /\ ClearAndPush
       /\ Track("edit", NoImage, NoImage)
       /\ UNCHANGED <<framesState, currentState, currentShown, playingState, draggingRef>>
       /\ UNCHANGED <<pipeVars, libVars, studioVars, aliasVars, gameVars>>
  ELSE /\ UNCHANGED canvasPixels
       /\ Timeline(RemoveAt(framesState, currentShown),
                   afterDelete(currentState, Len(framesState)))

moveFrame(dir) ==
  LET j == currentShown + dir
  IN /\ ~(j < 0 \/ j >= Len(framesState))
     /\ UNCHANGED canvasPixels
     /\ Timeline(InsertAt(RemoveAt(framesState, currentShown), j, currCanvas), j)

\* a click on a frame of the timeline: setCurrent(i)
selectFrame(i) ==
  /\ UNCHANGED canvasPixels
  /\ Timeline(framesState, i)

\* the play button: setPlaying((p) => !p)
togglePlaying ==
  /\ playingState' = ~playingState
  /\ currentShown' = currentState
  /\ Track("other", NoImage, NoImage)
  /\ UNCHANGED <<framesState, currentState, canvasPixels, historyRef, draggingRef>>
  /\ UNCHANGED <<pipeVars, libVars, studioVars, aliasVars, gameVars>>

\* the interval of the playback effect fires; the effect is set up again
\* whenever frames.length changes, so its closure holds the present length
playbackTick ==
  /\ playingState
  /\ currentState' = (currentState + 1) % Len(framesState)
  /\ Track("other", NoImage, NoImage)
  /\ UNCHANGED <<framesState, currentShown, playingState, canvasPixels, historyRef,
                 draggingRef>>
  /\ UNCHANGED <<pipeVars, libVars, studioVars, aliasVars, gameVars>>

\* React renders the update a tick queued
RenderEditor ==
  /\ currentShown # currentState
  /\ currentShown' = currentState
  /\ UNCHANGED <<framesState, currentState, playingState, canvasPixels, historyRef,
                 draggingRef, phase, beforeStroke, beforeUndo>>
  /\ UNCHANGED <<pipeVars, libVars, studioVars, aliasVars, gameVars>>

NextEditor ==
  \/ \E px \in PixelIndexes : beginStroke(px)
  \/ \E px \in PixelIndexes : moveStroke(px)
  \/ endStroke
  \/ newSprite
  \/ \E image \in ImportImages : handleImport(image)
  \/ undo
  \/ redo
  \/ onKeyUndo
  \/ onKeyRedo
  \/ addFrame
  \/ duplicateFrame
  \/ deleteFrame
  \/ \E dir \in {-1, 1} : moveFrame(dir)
  \/ \E i \in 0..(Len(framesState) - 1) : selectFrame(i)
  \/ togglePlaying
  \/ playbackTick
  \/ RenderEditor

SpecEditor == InitEditor /\ [][NextEditor]_vars

\* the timeline and the playback alone
NextTimeline ==
  \/ addFrame
  \/ duplicateFrame
  \/ deleteFrame
  \/ \E dir \in {-1, 1} : moveFrame(dir)
  \/ \E i \in 0..(Len(framesState) - 1) : selectFrame(i)
  \/ togglePlaying
  \/ playbackTick
  \/ RenderEditor

SpecTimeline == InitEditor /\ [][NextTimeline]_vars

\* the pixels of the frame the editor shows
CurrentPixels == canvasPixels[framesState[currentState + 1]]

\* C28: after any add, duplicate, delete and move of frames and any playback
\* ticks, the frame list is not empty and 0 <= current < frames.length.
C28_CurrentInRange ==
  /\ Len(framesState) >= 1
  /\ 0 <= currentState /\ currentState < Len(framesState)
  /\ 0 <= currentShown /\ currentShown < Len(framesState)
\* frames were added, the first frame was deleted, and a tick of the playback
\* is not yet rendered
C28_Witness ==
  /\ Len(canvasPixels) = 3 /\ Len(framesState) = 2
  /\ \A i \in 1..2 : framesState[i] # firstCanvas
  /\ playingState /\ currentShown # currentState

\* C25: after a sequence of completed strokes on a frame, one undo leaves the
\* frame with the pixels it had when the most recent stroke began.
C25_UndoRevertsLastStroke ==
  phase = "strokes.undo" => CurrentPixels = beforeStroke

\* C26: after any sequence of strokes, clears and imports, an undo followed at
\* once by a redo leaves the current frame with the pixels it had before the undo.
C26_UndoThenRedo ==
  phase = "undo.redo" => CurrentPixels = beforeUndo

\* a step of undo or redo on the stack of key k: the stack is kept, idx moves
Restores(k) ==
  /\ historyRef'[k].stack = historyRef[k].stack
  /\ historyRef'[k].idx # historyRef[k].idx

\* C27: whenever undo or redo changes the pixels of a frame, the snapshot it
\* put there had been taken from that same frame, whatever was added,
\* duplicated, deleted or moved in the timeline before.
C27_OwnSnapshots ==
  [][\A k \in DOMAIN historyRef : \A c \in DOMAIN canvasPixels :
       Restores(k) /\ canvasPixels'[c] # canvasPixels[c] =>
         historyRef[k].stack[historyRef'[k].idx + 1].from = c]_vars
====
